---- MODULE Spec2Model ----
(***************************************************************************)
(* A model of the clustering core of the AICHAT native library:            *)
(*   dbscan_cluster   (src/native/src/dbscan.c)                            *)
(*   kmeans_cluster   (src/native/src/kmeans.c, distance.c, random.h)      *)
(*   hybrid_cluster   (src/native/src/hybrid.c)                            *)
(*                                                                         *)
(* C arrays are functions on 0..n-1, as in the code.  A point of the       *)
(* DBSCAN input is a triple <<c1, c2, c3>> of floats counted in quanta of   *)
(* 2^-22, and the float operations of the grid round as the hardware does.  *)
(* The 32-bit floats of the K-Means and hybrid code are exact rationals     *)
(* <<numerator, denominator>>: for them the model says nothing about        *)
(* floating-point rounding.  A uint64_t is a tuple of four 16-bit limbs.    *)
(***************************************************************************)
EXTENDS Integers, Sequences, FiniteSets, TLC

VARIABLES db, km, hy, im, cl, strm, sp, nn

vars == <<db, km, hy, im, cl, strm, sp, nn>>

(***************************************************************************)
(* Bounds of the model.                                                    *)
(***************************************************************************)
MaxPoints == 4
FarCoord == 300
MaxEps == 1
MaxMinPts == 3

(***************************************************************************)
(* Program constants.                                                      *)
(***************************************************************************)
DBSCAN_NOISE == -1
DBSCAN_UNCLASSIFIED == -2
MaxGridSize == 256

\* The content of an output buffer the callee has not written.
Untouched == 0 - 99

Range(f) == {f[x] : x \in DOMAIN f}

Min2(a, b) == IF a < b THEN a ELSE b

Max2(a, b) == IF a > b THEN a ELSE b

Abs(x) == IF x < 0 THEN 0 - x ELSE x

\* (int)(a / b) of C for b > 0: truncation towards zero.
TruncDiv(a, b) == IF a >= 0 THEN a \div b ELSE 0 - ((0 - a) \div b)

\* ceilf(a / b) for b > 0.
CeilDiv(a, b) == 0 - ((0 - a) \div b)

RECURSIVE Flatten(_)
Flatten(ss) == IF ss = <<>> THEN <<>> ELSE Head(ss) \o Flatten(Tail(ss))

\* The indices 0..n-1 in ascending order, as a sequence.
Indices(n) == [t \in 1..n |-> t - 1]

(***************************************************************************)
(* The spatial grid of dbscan.c.                                           *)
(***************************************************************************)
\* A float coordinate of the DBSCAN input is a whole number of quanta of
\* 2^-22: One is 1.0f.  A float has 24 significant bits, so the quanta
\* counts below 2^24 (values below 4) are all floats, and from 4 on only
\* the multiples of 2, 4, ... are.
One == 4194304
Mantissa == 16777216

\* The quotient q of a division by 2 * half with remainder rem, rounded to
\* the nearest whole number, ties to the even one.
RoundToEven(q, rem, half) ==
    IF rem > half \/ (rem = half /\ q % 2 = 1) THEN q + 1 ELSE q

\* The bits by which a magnitude a >= 2^24 exceeds the 24 of a mantissa.
FloatShift(a) ==
    CHOOSE s \in 1..7 :
      /\ a \div (2 ^ s) < Mantissa
      /\ a \div (2 ^ (s - 1)) >= Mantissa

\* The magnitude a with its lowest k bits rounded away.
RoundAt(a, k) == RoundToEven(a \div (2 ^ k), a % (2 ^ k), 2 ^ (k - 1)) * (2 ^ k)

\* The float nearest to x quanta, ties to the even mantissa: the result of
\* a float addition or subtraction whose exact value is x.
RoundFloat(x) ==
    IF Abs(x) < Mantissa THEN x
    ELSE IF x < 0 THEN 0 - RoundAt(0 - x, FloatShift(0 - x))
    ELSE RoundAt(x, FloatShift(x))

\* A square of quanta counts does not fit a machine word of the checker:
\* <<hi, lo>> is hi * 2^24 + lo in units of 2^-44, with lo below 2^24.
DWSquare(d) ==
    LET a == d \div 4096
        b == d % 4096
        cross == 2 * a * b
        low == (cross % 4096) * 4096 + b * b
    IN  <<a * a + (cross \div 4096) + (low \div Mantissa), low % Mantissa>>

DWAdd(x, y) ==
    <<x[1] + y[1] + ((x[2] + y[2]) \div Mantissa), (x[2] + y[2]) % Mantissa>>

DWLe(x, y) == x[1] < y[1] \/ (x[1] = y[1] /\ x[2] <= y[2])

\* The number of bits of the high word hi > 0.
DWBits(hi) == CHOOSE k \in 1..30 : hi < 2 ^ k /\ hi >= 2 ^ (k - 1)

\* The 24-bit mantissa q put back at s bits above the low word.
DWPlace(q, s) == <<q \div (2 ^ (24 - s)), (q % (2 ^ (24 - s))) * (2 ^ s)>>

\* The value x, whose high word has s bits, with its lowest s bits rounded
\* away.
DWRoundAt(x, s) ==
    DWPlace(RoundToEven(x[1] * (2 ^ (24 - s)) + (x[2] \div (2 ^ s)),
                        x[2] % (2 ^ s), 2 ^ (s - 1)), s)

\* The float nearest to the value x, ties to the even mantissa: the result
\* of a float multiplication or addition whose exact value is x.
DWRound(x) == IF x[1] = 0 THEN x ELSE DWRoundAt(x, DWBits(x[1]))

\* The value 16.0, which no eps_sq of the model reaches.
DWFar == <<Mantissa, 0>>

\* d1, d2, d3 of lines 155-157, as magnitudes.
FloatDiffs(p, q) == [c \in 1..3 |-> Abs(RoundFloat(p[c] - q[c]))]

\* dist_sq of line 158: three float products and two float additions.
\* When a difference is 4.0 or more dist_sq is at least 16.0, and 16.0
\* stands for it.
FloatSumSq(d) ==
    IF \E c \in 1..3 : d[c] >= Mantissa THEN DWFar
    ELSE DWRound(DWAdd(DWRound(DWAdd(DWRound(DWSquare(d[1])),
                                     DWRound(DWSquare(d[2])))),
                       DWRound(DWSquare(d[3]))))

FloatDistSq(p, q) == FloatSumSq(FloatDiffs(p, q))

\* (val - min_val) / cell_size and the (int) cast.  cell_size is eps, a
\* power of two in the model: the float division is exact.
ClampCoord(coord, grid_size) ==
    IF coord < 0 THEN 0
    ELSE IF coord >= grid_size THEN grid_size - 1
    ELSE coord

grid_coord(val, min_val, cell_size, grid_size) ==
    ClampCoord(TruncDiv(RoundFloat(val - min_val), cell_size), grid_size)

grid_index(x, y, z, grid_size) == x * grid_size * grid_size + y * grid_size + z

MinOf(S) == CHOOSE x \in S : \A y \in S : x <= y

MaxOf(S) == CHOOSE x \in S : \A y \in S : x >= y

\* The cell of point p, as <<x, y, z>>.
CellOf(grid, p) ==
    <<grid_coord(p[1], grid.min_c1, grid.cell_size, grid.grid_size),
      grid_coord(p[2], grid.min_c2, grid.cell_size, grid.grid_size),
      grid_coord(p[3], grid.min_c3, grid.cell_size, grid.grid_size)>>

\* grid_create for n > 0: the bounding box, the origin with eps padding, the
\* per-dimension cell count and the cells.  Of the grid_size^3 cells only
\* those holding a point are kept (the others have count 0); a cell's
\* indices are in insertion order, which is ascending point index.
\* Lines 49-62: the least and the greatest value of component c.
MinCoord(points, n, c) == MinOf({points[i][c] : i \in 0..n-1})

MaxCoord(points, n, c) == MaxOf({points[i][c] : i \in 0..n-1})

\* Lines 68-70: max - min + 2 * eps, two float additions.
GridRange(min_c, max_c, eps) == RoundFloat(RoundFloat(max_c - min_c) + 2 * eps)

\* Lines 72-75: the cell count g per dimension, at least 1 and capped.
GridSizeOf(g) == IF g < 1 THEN 1 ELSE IF g > MaxGridSize THEN MaxGridSize ELSE g

\* Lines 64-75: the grid before its cells are filled.
GridHead(min_c1, min_c2, min_c3, max_range, eps) ==
    [cell_size |-> eps,
     min_c1 |-> RoundFloat(min_c1 - eps),
     min_c2 |-> RoundFloat(min_c2 - eps),
     min_c3 |-> RoundFloat(min_c3 - eps),
     grid_size |-> GridSizeOf(CeilDiv(max_range, eps))]

\* Line 93: the index of the cell <<x, y, z>>.
CellIndex(c, grid_size) == grid_index(c[1], c[2], c[3], grid_size)

\* Lines 88-107: the grid head with the cells that idx, the cell index of
\* every point, fills.
GridFilled(head, idx, n) ==
    [cell_size |-> head.cell_size,
     min_c1 |-> head.min_c1,
     min_c2 |-> head.min_c2,
     min_c3 |-> head.min_c3,
     grid_size |-> head.grid_size,
     cells |-> [c \in Range(idx) |-> SelectSeq(Indices(n), LAMBDA i : idx[i] = c)]]

GridOf(head, points, n) ==
    GridFilled(head,
               [i \in 0..n-1 |-> CellIndex(CellOf(head, points[i]), head.grid_size)],
               n)

grid_create(points, n, eps) ==
    GridOf(GridHead(MinCoord(points, n, 1), MinCoord(points, n, 2),
                    MinCoord(points, n, 3),
                    Max2(Max2(GridRange(MinCoord(points, n, 1),
                                        MaxCoord(points, n, 1), eps),
                              GridRange(MinCoord(points, n, 2),
                                        MaxCoord(points, n, 2), eps)),
                         GridRange(MinCoord(points, n, 3),
                                   MaxCoord(points, n, 3), eps)),
                    eps),
           points, n)

\* cells[cell_idx].indices[0 .. count-1].
CellIndices(grid, cell_idx) ==
    IF cell_idx \in DOMAIN grid.cells THEN grid.cells[cell_idx] ELSE <<>>

NeighborOffsetsLow == <<0, 1>>

\* The offsets dx, dy, dz of the 3x3x3 neighbourhood, in loop order.
NeighborOffsets == <<-1, 0, 1>>

\* The cells the three nested loops visit around <<cx, cy, cz>>, in order,
\* those outside the grid skipped.
CellsAround(grid, c) ==
    LET no == Len(NeighborOffsets)
        all == [t \in 1..(no * no * no) |->
                  <<c[1] + NeighborOffsets[((t - 1) \div (no * no)) + 1],
                    c[2] + NeighborOffsets[(((t - 1) \div no) % no) + 1],
                    c[3] + NeighborOffsets[((t - 1) % no) + 1]>>]
        inside(x) == x >= 0 /\ x < grid.grid_size
    IN  SelectSeq(all, LAMBDA d : inside(d[1]) /\ inside(d[2]) /\ inside(d[3]))

\* grid_range_query: the neighbours written to neighbors[0..count-1].
\* Lines 150-166 for the cell d: the points of the cell within eps of p.
CellHits(grid, points, p, d, eps_sq) ==
    SelectSeq(CellIndices(grid, CellIndex(d, grid.grid_size)),
              LAMBDA j : DWLe(FloatDistSq(p, points[j]), eps_sq))

\* Lines 138-166: the hits of the cells, in the order of the cells.
HitsIn(grid, points, p, cells, eps_sq) ==
    Flatten([t \in 1..Len(cells) |-> CellHits(grid, points, p, cells[t], eps_sq)])

\* Line 160: no more than max_neighbors hits are written.
FirstHits(found, max_neighbors) ==
    IF Len(found) <= max_neighbors THEN found ELSE SubSeq(found, 1, max_neighbors)

grid_range_query(grid, points, n, point_idx, eps_sq, max_neighbors) ==
    FirstHits(HitsIn(grid, points, points[point_idx],
                     CellsAround(grid, CellOf(grid, points[point_idx])), eps_sq),
              max_neighbors)

(***************************************************************************)
(* dbscan_cluster, one action per step of its loops.                       *)
(***************************************************************************)
\* Input points: a chain of three points 1.0 apart that uses two axes, a
\* point so far away on the third that the cell count is capped, and the
\* point -(3 - 2^-22) on the first axis.
DPointSet == {<<0, 0, 0>>, <<One, 0, 0>>, <<One, One, 0>>,
              <<One, One, FarCoord * One>>, <<1 - 3 * One, 0, 0>>}

DbIdle ==
    [pc |-> "idle", points |-> <<>>, n |-> 0, eps |-> 0, min_pts |-> 0,
     labels |-> <<>>, grid |-> <<>>, i |-> 0, cluster_id |-> 0,
     seed_queue |-> <<>>, queue_start |-> 0, queue_end |-> 0,
     in_queue |-> <<>>, ret |-> Untouched, first |-> <<>>]

\* Seven points on the first axis: 1.0, three times -(3 - 2^-22), then 2.0,
\* 3.0 and 0.0.
DbLine ==
    <<<<One, 0, 0>>, <<1 - 3 * One, 0, 0>>, <<1 - 3 * One, 0, 0>>,
      <<1 - 3 * One, 0, 0>>, <<2 * One, 0, 0>>, <<3 * One, 0, 0>>, <<0, 0, 0>>>>

\* The caller's frame: any array of up to MaxPoints points, eps > 0, and a
\* labels buffer the callee has not written yet; and the seven points of
\* DbLine with eps 1.0 and min_pts 3.
DbInit ==
    \/ \E n \in 0..MaxPoints :
         \E points \in [0..n-1 -> DPointSet] :
           \E eps \in 1..MaxEps :
             \E min_pts \in 1..MaxMinPts :
               db = [DbIdle EXCEPT !.pc = "call", !.points = points, !.n = n,
                                   !.eps = eps * One, !.min_pts = min_pts,
                                   !.labels = [i \in 0..MaxPoints-1 |-> Untouched]]
    \/ db = [DbIdle EXCEPT !.pc = "call",
                           !.points = [i \in 0..(Len(DbLine) - 1) |-> DbLine[i + 1]],
                           !.n = Len(DbLine), !.eps = One, !.min_pts = 3,
                           !.labels = [i \in 0..Len(DbLine) |-> Untouched]]

\* eps * eps of line 267, a float product.
EpsSq(st) == DWRound(DWSquare(st.eps))

\* Lines 265-283: the empty input returns 0 at once; otherwise the labels
\* are reset, the grid is built and the buffers are allocated.
DbscanEnter ==
    /\ db.pc = "call"
    /\ IF db.n = 0
       THEN db' = [db EXCEPT !.pc = "done", !.ret = 0]
       ELSE db' = [db EXCEPT !.pc = "scan",
                             !.labels = [i \in DOMAIN db.labels |->
                                           IF i < db.n THEN DBSCAN_UNCLASSIFIED
                                           ELSE db.labels[i]],
                             !.grid = grid_create(db.points, db.n, db.eps),
                             !.in_queue = [i \in 0..db.n-1 |-> 0],
                             !.i = 0, !.cluster_id = 0]
    /\ UNCHANGED <<km, hy, im, cl, strm, sp, nn>>

\* Line 286: a point an earlier expansion has labelled is passed over.
DbscanSkip ==
    /\ db.pc = "scan"
    /\ db.i < db.n
    /\ db.labels[db.i] # DBSCAN_UNCLASSIFIED
    /\ db' = [db EXCEPT !.i = db.i + 1]
    /\ UNCHANGED <<km, hy, im, cl, strm, sp, nn>>

DbscanNoiseUnlabelled ==
    /\ db.pc = "scan"
    /\ db.i < db.n
    /\ db.labels[db.i] = DBSCAN_UNCLASSIFIED
    /\ Len(grid_range_query(db.grid, db.points, db.n, db.i, EpsSq(db), db.n)) < db.min_pts
    /\ db' = [db EXCEPT !.i = db.i + 1]
    /\ UNCHANGED <<km, hy, im, cl, strm, sp, nn>>

DbscanNoiseTakesId ==
    /\ db.pc = "scan"
    /\ db.i < db.n
    /\ db.labels[db.i] = DBSCAN_UNCLASSIFIED
    /\ Len(grid_range_query(db.grid, db.points, db.n, db.i, EpsSq(db), db.n)) < db.min_pts
    /\ db' = [db EXCEPT !.labels[db.i] = DBSCAN_NOISE, !.i = db.i + 1,
                        !.cluster_id = db.cluster_id + 1]
    /\ UNCHANGED <<km, hy, im, cl, strm, sp, nn>>

\* Lines 288-293: fewer than min_pts neighbours: noise, for now.
DbscanNoise ==
    /\ db.pc = "scan"
    /\ db.i < db.n
    /\ db.labels[db.i] = DBSCAN_UNCLASSIFIED
    /\ Len(grid_range_query(db.grid, db.points, db.n, db.i, EpsSq(db), db.n)) < db.min_pts
    /\ db' = [db EXCEPT !.labels[db.i] = DBSCAN_NOISE, !.i = db.i + 1]
    /\ UNCHANGED <<km, hy, im, cl, strm, sp, nn>>

\* seed_queue and in_queue after the neighbours `cand`, in order, were
\* offered to the queue: j is appended when it is not queued yet and meets
\* the rest of the code's condition (j \in allowed).
RECURSIVE Enqueue(_, _, _, _)
Enqueue(cand, queue, inq, allowed) ==
    IF cand = <<>> THEN [queue |-> queue, in_queue |-> inq]
    ELSE LET j == Head(cand)
         IN  IF inq[j] = 0 /\ j \in allowed
             THEN Enqueue(Tail(cand), Append(queue, j), [inq EXCEPT ![j] = 1], allowed)
             ELSE Enqueue(Tail(cand), queue, inq, allowed)

\* A seed loop that queues the seed point with its neighbours.
SeedEnqueueAll(n, i) == 0..n-1

\* Line 303: a neighbour of the seed point i is queued unless it is the
\* seed itself (or already queued).
SeedEnqueueOk(n, i) == {j \in 0..n-1 : j # i}

\* Lines 295-307: a core point opens cluster cluster_id and queues its
\* neighbours.  seed_queue is written from index 0 again.
DbSeeded(st, e) ==
    [st EXCEPT !.pc = "expand",
               !.labels[st.i] = st.cluster_id,
               !.seed_queue = e.queue,
               !.in_queue = e.in_queue,
               !.queue_start = 0,
               !.queue_end = Len(e.queue)]

DbscanSeed ==
    /\ db.pc = "scan"
    /\ db.i < db.n
    /\ db.labels[db.i] = DBSCAN_UNCLASSIFIED
    /\ \E neighbors \in {grid_range_query(db.grid, db.points, db.n, db.i,
                                          EpsSq(db), db.n)} :
         /\ Len(neighbors) >= db.min_pts
         /\ db' = DbSeeded(db, Enqueue(neighbors, <<>>, db.in_queue,
                                       SeedEnqueueOk(db.n, db.i)))
    /\ UNCHANGED <<km, hy, im, cl, strm, sp, nn>>

\* Lines 313-315: the label of the popped point q after the noise check.
PromoteNoise(labels, q, cluster_id) ==
    IF labels[q] = DBSCAN_NOISE THEN [labels EXCEPT ![q] = cluster_id] ELSE labels

\* Lines 326-327: a neighbour of a core point is queued when it is
\* unclassified or noise (and not queued yet).
ExpandEnqueueOk(labels, n) ==
    {j \in 0..n-1 : labels[j] = DBSCAN_UNCLASSIFIED \/ labels[j] = DBSCAN_NOISE}

\* Lines 310-333: one iteration of the expansion loop.
\* Lines 324-332: the queue after the neighbours of q were found.
DbOffered(st, labels, neighbors) ==
    IF Len(neighbors) >= st.min_pts
    THEN Enqueue(neighbors, st.seed_queue, st.in_queue, ExpandEnqueueOk(labels, st.n))
    ELSE [queue |-> st.seed_queue, in_queue |-> st.in_queue]

\* Lines 319-332: q takes the cluster id and its neighbours are offered.
DbExpanded(st, labels, e) ==
    [st EXCEPT !.labels = labels,
               !.queue_start = st.queue_start + 1,
               !.seed_queue = e.queue,
               !.in_queue = e.in_queue,
               !.queue_end = Len(e.queue)]

DbJoined(st, q, labels) ==
    DbExpanded(st, labels,
               DbOffered(st, labels,
                         grid_range_query(st.grid, st.points, st.n, q, EpsSq(st), st.n)))

\* Lines 311-332 for the popped point q, labels being those after the
\* noise check.
DbPopped(st, q, labels) ==
    IF labels[q] # DBSCAN_UNCLASSIFIED
    THEN [st EXCEPT !.labels = labels, !.queue_start = st.queue_start + 1]
    ELSE DbJoined(st, q, [labels EXCEPT ![q] = st.cluster_id])

DbscanPop ==
    /\ db.pc = "expand"
    /\ db.queue_start < db.queue_end
    /\ db' = DbPopped(db, db.seed_queue[db.queue_start + 1],
                      PromoteNoise(db.labels, db.seed_queue[db.queue_start + 1],
                                   db.cluster_id))
    /\ UNCHANGED <<km, hy, im, cl, strm, sp, nn>>

\* Lines 335-340: the queue has drained: the in_queue flags of the queued
\* points are cleared and the next cluster id is taken.
DbscanClose ==
    /\ db.pc = "expand"
    /\ db.queue_start = db.queue_end
    /\ db' = [db EXCEPT !.pc = "scan",
                        !.in_queue = [j \in DOMAIN db.in_queue |->
                                        IF j \in Range(db.seed_queue) THEN 0
                                        ELSE db.in_queue[j]],
                        !.cluster_id = db.cluster_id + 1,
                        !.i = db.i + 1]
    /\ UNCHANGED <<km, hy, im, cl, strm, sp, nn>>

\* Lines 343-348.
DbscanReturn ==
    /\ db.pc = "scan"
    /\ db.i = db.n
    /\ db' = [db EXCEPT !.pc = "done", !.ret = db.cluster_id]
    /\ UNCHANGED <<km, hy, im, cl, strm, sp, nn>>

\* What a call of dbscan_cluster hands back.
DbOutcome(st) == [labels |-> st.labels, ret |-> st.ret]

\* The caller calls dbscan_cluster a second time with the same arguments
\* and the labels buffer as the first call left it; first keeps what the
\* first call handed back.
DbscanAgain ==
    /\ db.pc = "done"
    /\ DOMAIN db.first = {}
    /\ db' = [DbIdle EXCEPT !.pc = "call", !.points = db.points, !.n = db.n,
                            !.eps = db.eps, !.min_pts = db.min_pts,
                            !.labels = db.labels, !.first = DbOutcome(db)]
    /\ UNCHANGED <<km, hy, im, cl, strm, sp, nn>>

(***************************************************************************)
(* Rational arithmetic for the float values of the K-Means code.           *)
(***************************************************************************)
RECURSIVE GCD(_, _)
GCD(a, b) == IF b = 0 THEN a ELSE GCD(b, a % b)

RReduce(r, g) == IF g = 0 THEN r ELSE <<r[1] \div g, r[2] \div g>>

RNorm(r) == IF r[2] = 1 THEN r ELSE RReduce(r, GCD(Abs(r[1]), r[2]))

RInt(x) == <<x, 1>>

RAdd(a, b) == RNorm(<<a[1] * b[2] + b[1] * a[2], a[2] * b[2]>>)

RSub(a, b) == RNorm(<<a[1] * b[2] - b[1] * a[2], a[2] * b[2]>>)

RMul(a, b) == RNorm(<<a[1] * b[1], a[2] * b[2]>>)

\* a / c for an integer c > 0.
RDivInt(a, c) == RNorm(<<a[1], a[2] * c>>)

RLt(a, b) == a[1] * b[2] < b[1] * a[2]

RLe(a, b) == a[1] * b[2] <= b[1] * a[2]

\* The sum of rs[lo .. hi], split in halves.
RECURSIVE RSumRange(_, _, _)
RSumRange(rs, lo, hi) ==
    IF lo > hi THEN RInt(0)
    ELSE IF lo = hi THEN rs[lo]
    ELSE LET mid == (lo + hi) \div 2
         IN  RAdd(RSumRange(rs, lo, mid), RSumRange(rs, mid + 1, hi))

RSum(rs) == RSumRange(rs, 1, Len(rs))

\* FLT_MAX: above every value of the model (1/0 under cross-multiplication).
FLT_MAX == <<1, 0>>

\* An integer point as a point of floats.
ToFloat(p) == <<RInt(p[1]), RInt(p[2]), RInt(p[3])>>

(***************************************************************************)
(* The xorshift64 generator of random.h, on 64-bit words.                  *)
(***************************************************************************)
\* A uint64_t is four 16-bit limbs, least significant first.
Limb == 65536

\* The word of a number below 2^31.
U64(x) == <<x % Limb, x \div Limb, 0, 0>>

U64FromLimbs(l) == <<l[1], l[2], l[3], l[4]>>

U64Zero == <<0, 0, 0, 0>>

\* The limb at position j of a word, zero outside the word.
LimbAt(x, j) == IF j >= 1 /\ j <= 4 THEN x[j] ELSE 0

\* x << sh and x >> sh of uint64_t for 0 < sh < 32.
ShlLimb(x, j, q, r) ==
    ((LimbAt(x, j - q) * (2 ^ r)) % Limb) + (LimbAt(x, j - q - 1) \div (2 ^ (16 - r)))

ShlBy(x, q, r) ==
    <<ShlLimb(x, 1, q, r), ShlLimb(x, 2, q, r), ShlLimb(x, 3, q, r), ShlLimb(x, 4, q, r)>>

Shl(x, sh) == ShlBy(x, sh \div 16, sh % 16)

ShrLimb(x, j, q, r) ==
    (LimbAt(x, j + q) \div (2 ^ r)) + ((LimbAt(x, j + q + 1) % (2 ^ r)) * (2 ^ (16 - r)))

ShrBy(x, q, r) ==
    <<ShrLimb(x, 1, q, r), ShrLimb(x, 2, q, r), ShrLimb(x, 3, q, r), ShrLimb(x, 4, q, r)>>

Shr(x, sh) == ShrBy(x, sh \div 16, sh % 16)

\* a ^ b on 4-bit values, bit by bit.
Xor4(a, b) ==
    (((a + b) % 2) + 2 * (((a \div 2) + (b \div 2)) % 2))
    + (4 * (((a \div 4) + (b \div 4)) % 2) + 8 * (((a \div 8) + (b \div 8)) % 2))

\* a ^ b on 16-bit limbs.
BitXor(a, b) ==
    (Xor4(a % 16, b % 16) + 16 * Xor4((a \div 16) % 16, (b \div 16) % 16))
    + (256 * Xor4((a \div 256) % 16, (b \div 256) % 16)
       + 4096 * Xor4(a \div 4096, b \div 4096))

Xor(x, y) == <<BitXor(x[1], y[1]), BitXor(x[2], y[2]),
               BitXor(x[3], y[3]), BitXor(x[4], y[4])>>

\* x + y of uint64_t: modulo 2^64.
U64Add(x, y) ==
    LET s1 == x[1] + y[1]
        s2 == x[2] + y[2] + (s1 \div Limb)
        s3 == x[3] + y[3] + (s2 \div Limb)
        s4 == x[4] + y[4] + (s3 \div Limb)
    IN  <<s1 % Limb, s2 % Limb, s3 % Limb, s4 % Limb>>

\* x % m for 0 < m < 2^15.
U64Mod(x, m) ==
    LET r4 == x[4] % m
        r3 == (r4 * Limb + x[3]) % m
        r2 == (r3 * Limb + x[2]) % m
    IN  (r2 * Limb + x[1]) % m

xorshift64_init(seed) == IF seed = U64Zero THEN U64(42) ELSE seed

\* The new state, which is also the value returned.  State 0 is the fixed
\* point of the three steps.
XorShl(x, sh) == Xor(x, Shl(x, sh))

XorShr(x, sh) == Xor(x, Shr(x, sh))

xorshift64_next(state) ==
    IF state = U64Zero THEN U64Zero
    ELSE XorShl(XorShr(XorShl(state, 13), 7), 17)

\* xorshift64_int on the value x that xorshift64_next returned.
xorshift64_int(x, max) == U64Mod(x, max)

\* floor(((x >> 11) * c) / 2^53) and whether the division is exact, for
\* 0 <= c < 2^15.
MulShift(x, c) ==
    LET y == Shr(x, 11)
        p1 == y[1] * c
        p2 == y[2] * c + (p1 \div Limb)
        p3 == y[3] * c + (p2 \div Limb)
        p4 == y[4] * c + (p3 \div Limb)
    IN  <<p4 \div 32,
          p1 % Limb = 0 /\ p2 % Limb = 0 /\ p3 % Limb = 0 /\ p4 % 32 = 0>>

\* cumulative >= xorshift64_double * total_dist, where the double is
\* (x >> 11) / 2^53 for the value x that xorshift64_next returned: with
\* cumulative = a/b and total_dist = c/e this is a*e*2^53 >= (x >> 11)*c*b.
\* The comparison is on the exact values: the rounding of the (float) cast
\* and of the float product is left out.
AtLeast(lhs, ms) == lhs > ms[1] \/ (lhs = ms[1] /\ ms[2])

ThresholdReached(cumulative, total_dist, x) ==
    AtLeast(cumulative[1] * total_dist[2], MulShift(x, total_dist[1] * cumulative[2]))

(***************************************************************************)
(* distance.c                                                              *)
(***************************************************************************)
HAS_SSE == 1

RSumSq(d1, d2, d3) == RAdd(RAdd(RMul(d1, d1), RMul(d2, d2)), RMul(d3, d3))

distance_squared(a, b) == RSumSq(RSub(a[1], b[1]), RSub(a[2], b[2]), RSub(a[3], b[3]))

\* The least of a non-empty set of floats.
RMin(S) == CHOOSE m \in S : \A o \in S : RLe(m, o)

\* The greatest of a non-empty set of floats.
RMax(S) == CHOOSE m \in S : \A o \in S : RLe(o, m)

\* The scan of centroids[from .. to-1] with the running <<nearest, min_dist>>:
\* a centroid replaces the nearest one only when strictly closer, so the
\* scan ends on the first centroid at the least distance, or on the running
\* pair when none is strictly closer than it.
ScanLeast(dist, from, to, least, best) ==
    IF RLt(least, best[2])
    THEN <<from + MinOf({t \in 1..(to - from) : dist[t] = least}) - 1, least>>
    ELSE best

ScanOf(dist, from, to, best) == ScanLeast(dist, from, to, RMin(Range(dist)), best)

ScanNearest(point, centroids, from, to, best) ==
    IF from >= to THEN best
    ELSE ScanOf(SubSeq([t \in 1..(to - from) |->
                           distance_squared(point, centroids[from + t - 1])],
                       1, to - from),
                from, to, best)

find_nearest_centroid(point, centroids, k) ==
    ScanNearest(point, centroids, 0, k, <<0, FLT_MAX>>)[1]

\* find_nearest_sse for one point: four lanes at a time while j + 3 < k,
\* the lanes compared in order di = 0..3, then the remaining centroids.
RECURSIVE SseLanes(_, _, _, _, _)
SseLanes(point, centroids, k, j, best) ==
    IF j + 3 < k
    THEN SseLanes(point, centroids, k, j + 4,
                  ScanNearest(point, centroids, j, j + 4, best))
    ELSE ScanNearest(point, centroids, j, k, best)

find_nearest_sse(point, centroids, k) ==
    SseLanes(point, centroids, k, 0, <<0, FLT_MAX>>)[1]

\* assign_points_batch: the new assignments and the number that changed.
\* Lines 148-166: the assignments after nearest[i] was compared with
\* assignments[i] for every i, and the number that changed.
Reassigned(n, assignments, nearest) ==
    [assignments |-> [i \in DOMAIN assignments |->
                        IF i < n THEN nearest[i] ELSE assignments[i]],
     changed |-> Cardinality({i \in 0..n-1 : assignments[i] # nearest[i]})]

assign_points_batch(points, n, centroids, k, assignments) ==
    Reassigned(n, assignments,
               [i \in 0..n-1 |->
                  IF HAS_SSE = 1 /\ k >= 4
                  THEN find_nearest_sse(points[i], centroids, k)
                  ELSE find_nearest_centroid(points[i], centroids, k)])

(***************************************************************************)
(* kmeans.c                                                                *)
(***************************************************************************)
\* distances[i] of K-Means++: the squared distance of points[i] to the
\* nearest of centroids[0 .. c-1].
NearestDistance(point, centroids, c) ==
    ScanNearest(point, centroids, 0, c, <<0, FLT_MAX>>)[2]

\* Lines 49-60 on the sequence of distances (distances[i] at position
\* i + 1): the first i whose cumulative distance reaches the threshold, and
\* the default n - 1 when none does.
FirstReached(reached, n) == IF reached = {} THEN n - 1 ELSE MinOf(reached)

SelectFrom(distances, n, total_dist, x) ==
    FirstReached({i \in 0..n-1 :
                    ThresholdReached(RSumRange(distances, 1, i + 1), total_dist, x)},
                 n)

\* Lines 35-60: the point selected for centroid c, distances[i] being the
\* distance of points[i] to the nearest of the c centroids chosen.
SelectBy(distances, n, x) == SelectFrom(distances, n, RSum(distances), x)

SelectWeighted(points, n, centroids, c, x) ==
    SelectBy(SubSeq([t \in 1..n |-> NearestDistance(points[t - 1], centroids, c)],
                    1, n),
             n, x)

\* Lines 24-32 of kmeans_init_plusplus: the first centroid is a random
\* point.  The centroids buffer and the generator state after it.
InitFirstDrawn(points, n, centroids, x) ==
    [centroids |-> [centroids EXCEPT ![0] = points[xorshift64_int(x, n)]],
     rng |-> x]

InitFirst(points, n, centroids, seed) ==
    InitFirstDrawn(points, n, centroids, xorshift64_next(xorshift64_init(seed)))

\* Lines 35-62 of kmeans_init_plusplus for one c: centroid c is the point
\* the weighted selection picks.
InitNextDrawn(points, n, c, centroids, x) ==
    [centroids |->
         [centroids EXCEPT ![c] = points[SelectWeighted(points, n, centroids, c, x)]],
     rng |-> x]

InitNext(points, n, c, centroids, rng) ==
    InitNextDrawn(points, n, c, centroids, xorshift64_next(rng))

\* A centroid update that takes the last member instead of the mean.
ClusterLastMember(points, members) == points[MaxOf(members)]

\* The mean of component d of the points at the indices ms.
MeanComponent(points, ms, d) ==
    RDivInt(RSum([t \in 1..Len(ms) |-> points[ms[t]][d]]), Len(ms))

MeanAt(points, ms) ==
    <<MeanComponent(points, ms, 1), MeanComponent(points, ms, 2),
      MeanComponent(points, ms, 3)>>

\* The mean of the points assigned to cluster c (counts[c] > 0).
ClusterMean(points, members) ==
    MeanAt(points,
           SelectSeq(Indices(Cardinality(DOMAIN points)), LAMBDA i : i \in members))

\* The state of the generator after j calls of xorshift64_next.
RECURSIVE Draw(_, _)
Draw(rng, j) ==
    IF j = 0 \/ rng = U64Zero THEN rng
    ELSE IF j = 1 THEN xorshift64_next(rng)
    ELSE Draw(Draw(rng, j \div 2), j - (j \div 2))

\* kmeans_update_centroids.  The loop over c draws from the generator once
\* for every empty cluster, in ascending c: the empty cluster c takes the
\* draw whose number is the count of empty clusters up to c.  max_movement
\* is the largest squared movement (the value returned is its sqrtf) and
\* repaired counts the empty clusters reinitialised.
\* Lines 88-96: the points assigned to each cluster.
MembersOf(n, assignments, k) ==
    [c \in 0..k-1 |-> {i \in 0..n-1 : assignments[i] = c}]

\* Lines 101-113: new_centroid for every c, at position c + 1.
NewCentroids(points, n, k, members, empty, rng) ==
    SubSeq([t \in 1..k |->
               IF members[t - 1] # {}
               THEN ClusterMean(points, members[t - 1])
               ELSE points[xorshift64_int(
                               Draw(rng, Cardinality({e \in empty : e < t})), n)]],
           1, k)

\* Lines 115-120.
Updated(k, centroids, new_centroid, repaired) ==
    [centroids |-> [c \in DOMAIN centroids |->
                      IF c < k THEN new_centroid[c + 1] ELSE centroids[c]],
     max_movement |->
         RMax({RInt(0)} \cup {distance_squared(centroids[c], new_centroid[c + 1]) :
                                 c \in 0..k-1}),
     repaired |-> repaired]

UpdateFrom(points, n, k, centroids, members, empty, seed) ==
    Updated(k, centroids,
            NewCentroids(points, n, k, members, empty, xorshift64_init(seed)),
            Cardinality(empty))

UpdateOf(points, n, k, centroids, members, seed) ==
    UpdateFrom(points, n, k, centroids, members,
               {c \in 0..k-1 : members[c] = {}}, seed)

kmeans_update_centroids(points, n, assignments, k, centroids, seed) ==
    UpdateOf(points, n, k, centroids, MembersOf(n, assignments, k), seed)

\* movement < convergence_threshold, with movement = sqrtf(max_movement) >= 0.
MovementBelow(max_movement, convergence_threshold) ==
    /\ RLt(RInt(0), convergence_threshold)
    /\ RLt(max_movement, RMul(convergence_threshold, convergence_threshold))

\* A convergence test that ignores the number of changed assignments.
ConvergedOnMovementOnly(max_movement, convergence_threshold, changed) ==
    MovementBelow(max_movement, convergence_threshold)

\* Line 161: the convergence test of the sweep.
Converged(max_movement, convergence_threshold, changed) ==
    MovementBelow(max_movement, convergence_threshold) \/ changed = 0

\* The within-cluster sum of squared distances: each point to the centroid
\* it is assigned to.
SSE(points, n, centroids, assignments) ==
    RSum([t \in 1..n |-> distance_squared(points[t - 1], centroids[assignments[t - 1]])])

KmIdle ==
    [pc |-> "idle", points |-> <<>>, n |-> 0, k |-> 0, max_iterations |-> 0,
     convergence_threshold |-> RInt(0), centroids |-> <<>>, assignments |-> <<>>,
     seed |-> U64Zero, iteration |-> 0, changed |-> 0, max_movement |-> RInt(0),
     ret |-> Untouched, sweeps |-> 0, repaired |-> 0, sse |-> RInt(0),
     prev_sse |-> RInt(0), stopped |-> FALSE, requested_k |-> 0,
     c |-> 0, rng |-> U64Zero, first |-> <<>>]

\* The frame of a call of kmeans_cluster with output buffers the callee has
\* not written.  requested_k, sweeps, repaired, sse, prev_sse and stopped
\* record the run: the k of the caller, the sweeps executed, the empty
\* clusters the last sweep reinitialised, the objective after the last sweep
\* and after the one before, and whether a sweep has met the convergence test.
KmCall(points, n, k, max_iterations, convergence_threshold, seed, ncent, nassign) ==
    [KmIdle EXCEPT !.pc = "call", !.points = points, !.n = n, !.k = k,
                   !.requested_k = k,
                   !.max_iterations = max_iterations,
                   !.convergence_threshold = convergence_threshold,
                   !.seed = seed,
                   !.centroids = [c \in 0..ncent-1 |-> Untouched],
                   !.assignments = [i \in 0..nassign-1 |-> Untouched]]

\* Line 143: the calls that return 0 at once.
KmDegenerateEmptyOnly(n, k) == n = 0

KmDegenerate(n, k) == n = 0 \/ k <= 0

\* Lines 143-147 on the frame f: the degenerate calls return 0 at once;
\* otherwise k is reduced to n and kmeans_init_plusplus chooses the first
\* centroid.  c and rng are the locals of kmeans_init_plusplus.
KmFirst(f, first) ==
    [f EXCEPT !.pc = "seed", !.k = IF f.k > f.n THEN f.n ELSE f.k,
              !.centroids = first.centroids, !.rng = first.rng, !.c = 1]

KmEntered(f) ==
    IF KmDegenerate(f.n, f.k)
    THEN [f EXCEPT !.pc = "done", !.ret = 0]
    ELSE KmFirst(f, InitFirst(f.points, f.n, f.centroids, f.seed))

\* An entry that leaves the assignments buffer as it found it.
KmNext(f, next) ==
    [f EXCEPT !.centroids = next.centroids, !.rng = next.rng, !.c = f.c + 1]

KmSeededKeepsLabels(f) ==
    IF f.c < f.k
    THEN KmNext(f, InitNext(f.points, f.n, f.c, f.centroids, f.rng))
    ELSE [f EXCEPT !.pc = "loop", !.iteration = 0]

\* Lines 147-150 on the frame f: kmeans_init_plusplus chooses centroid c,
\* or has chosen them all and the assignments are zeroed.
KmSeeded(f) ==
    IF f.c < f.k
    THEN KmNext(f, InitNext(f.points, f.n, f.c, f.centroids, f.rng))
    ELSE [f EXCEPT !.pc = "loop",
                   !.assignments = [i \in DOMAIN f.assignments |->
                                      IF i < f.n THEN 0 ELSE f.assignments[i]],
                   !.iteration = 0]

\* A sweep that updates the centroids from the assignments of the sweep
\* before.
\* Lines 161-164 and the record of the sweep: a is what
\* assign_points_batch returned, u what kmeans_update_centroids returned.
KmTested(f, a, u, stop) ==
    [f EXCEPT !.pc = IF stop THEN "break" ELSE "loop",
              !.assignments = a.assignments,
              !.changed = a.changed,
              !.centroids = u.centroids,
              !.max_movement = u.max_movement,
              !.iteration = f.iteration + 1,
              !.sweeps = f.sweeps + 1,
              !.repaired = u.repaired,
              !.prev_sse = f.sse,
              !.sse = SSE(f.points, f.n, u.centroids, a.assignments),
              !.stopped = stop]

KmUpdated(f, a, u) ==
    KmTested(f, a, u, Converged(u.max_movement, f.convergence_threshold, a.changed))

KmAssignedStale(f, a) ==
    KmUpdated(f, a,
              kmeans_update_centroids(f.points, f.n, f.assignments, f.k,
                                      f.centroids, U64Add(f.seed, U64(f.iteration))))

KmSweptStaleLabels(f) ==
    KmAssignedStale(f, assign_points_batch(f.points, f.n, f.centroids, f.k,
                                           f.assignments))

\* Lines 153-165 on the frame f: one sweep.  A sweep that meets the
\* convergence test counts itself and leaves the loop.
KmAssigned(f, a) ==
    KmUpdated(f, a,
              kmeans_update_centroids(f.points, f.n, a.assignments, f.k,
                                      f.centroids, U64Add(f.seed, U64(f.iteration))))

KmSwept(f) ==
    KmAssigned(f, assign_points_batch(f.points, f.n, f.centroids, f.k, f.assignments))

\* A return that counts the terminating sweep once more.
KmReturnedOneMore(f) == [f EXCEPT !.pc = "done", !.ret = f.iteration + 1]

\* Line 167 on the frame f.
KmReturned(f) == [f EXCEPT !.pc = "done", !.ret = f.iteration]

RECURSIVE KmSeedLoop(_)
KmSeedLoop(f) == IF f.pc = "seed" THEN KmSeedLoop(KmSeeded(f)) ELSE f

RECURSIVE KmLoop(_)
KmLoop(f) ==
    IF f.pc = "loop" /\ f.iteration < f.max_iterations
    THEN KmLoop(KmSwept(f))
    ELSE f

\* kmeans_cluster from call to return: the frame at the return.
kmeans_cluster(points, n, k, max_iterations, convergence_threshold, seed, ncent, nassign) ==
    LET entered == KmEntered(KmCall(points, n, k, max_iterations,
                                    convergence_threshold, seed, ncent, nassign))
    IN  IF entered.pc = "done" THEN entered
        ELSE KmReturned(KmLoop(KmSeedLoop(entered)))

KmeansEnter ==
    /\ km.pc = "call"
    /\ km' = KmEntered(km)
    /\ UNCHANGED <<db, hy, im, cl, strm, sp, nn>>

KmeansSeed ==
    /\ km.pc = "seed"
    /\ km' = KmSeeded(km)
    /\ UNCHANGED <<db, hy, im, cl, strm, sp, nn>>

KmeansSweep ==
    /\ km.pc = "loop"
    /\ km.iteration < km.max_iterations
    /\ km' = KmSwept(km)
    /\ UNCHANGED <<db, hy, im, cl, strm, sp, nn>>

\* Line 167, reached by the break or by the loop condition.
KmeansReturn ==
    /\ \/ km.pc = "break"
       \/ km.pc = "loop" /\ km.iteration >= km.max_iterations
    /\ km' = KmReturned(km)
    /\ UNCHANGED <<db, hy, im, cl, strm, sp, nn>>

\* What a call of kmeans_cluster hands back.
KmOutcome(f) == [centroids |-> f.centroids, assignments |-> f.assignments, ret |-> f.ret]

\* The caller calls kmeans_cluster a second time with the same arguments
\* and the two output buffers as the first call left them.
KmeansAgain ==
    /\ km.pc = "done"
    /\ hy.pc = "idle"
    /\ DOMAIN km.first = {}
    /\ km' = [KmCall(km.points, km.n, km.requested_k, km.max_iterations,
                     km.convergence_threshold, km.seed, 0, 0)
                 EXCEPT !.centroids = km.centroids,
                        !.assignments = km.assignments,
                        !.first = KmOutcome(km)]
    /\ UNCHANGED <<db, hy, im, cl, strm, sp, nn>>

(***************************************************************************)
(* hybrid.c                                                                *)
(***************************************************************************)
point_distance_sq(a, b) ==
    RSumSq(RSub(a[1], b[1]), RSub(a[2], b[2]), RSub(a[3], b[3]))

count_neighbors(points, n, idx, eps_sq) ==
    Cardinality({j \in 0..n-1 : RLe(point_distance_sq(points[idx], points[j]), eps_sq)})

\* The indices j, ascending, that labels has at -2 and that lie within eps
\* of point from: the points a scan of block_dbscan enqueues.
BlockReachable(points, n, from, eps_sq, labels) ==
    SelectSeq(Indices(n),
              LAMBDA j : /\ labels[j] = -2
                         /\ RLe(point_distance_sq(points[from], points[j]), eps_sq))

\* labels with every index of the sequence js set to v.
MarkAll(labels, js, v) ==
    [j \in DOMAIN labels |-> IF j \in Range(js) THEN v ELSE labels[j]]

\* Lines 83-107: the queue loop from position queue_start; the labels at
\* its end, and the entries of queue written by then.
RECURSIVE BlockExpand(_, _, _, _, _, _, _, _)
RECURSIVE BlockPopped(_, _, _, _, _, _, _, _, _)
RECURSIVE BlockFound(_, _, _, _, _, _, _, _, _)
BlockExpand(points, n, eps_sq, min_pts, queue, queue_start, labels, cluster_id) ==
    IF queue_start >= Len(queue) THEN [labels |-> labels, queue |-> queue]
    ELSE BlockPopped(points, n, eps_sq, min_pts, queue, queue_start, labels, cluster_id,
                     queue[queue_start + 1])

\* Lines 84-106 for the popped point q.
BlockPopped(points, n, eps_sq, min_pts, queue, queue_start, labels, cluster_id, q) ==
    BlockFound(points, n, eps_sq, min_pts, queue, queue_start,
               [labels EXCEPT ![q] = cluster_id], cluster_id,
               IF labels[q] # -1 /\ count_neighbors(points, n, q, eps_sq) >= min_pts
               THEN BlockReachable(points, n, q, eps_sq,
                                   [labels EXCEPT ![q] = cluster_id])
               ELSE <<>>)

\* Lines 93-105: the points found are queued and marked -3.
BlockFound(points, n, eps_sq, min_pts, queue, queue_start, labelled, cluster_id, found) ==
    BlockExpand(points, n, eps_sq, min_pts, queue \o found, queue_start + 1,
                MarkAll(labelled, found, -3), cluster_id)

\* Lines 57-110: the loop over i; the labels and the number of clusters at
\* its end, and for every expansion from i on, in order, the seed and the
\* entries written to queue.
RECURSIVE BlockScan(_, _, _, _, _, _, _)
RECURSIVE BlockSeeded(_, _, _, _, _, _, _)
RECURSIVE BlockQueued(_, _, _, _, _, _, _, _)
RECURSIVE BlockExpanded(_, _, _, _, _, _, _)
BlockScan(points, n, eps_sq, min_pts, i, labels, cluster_id) ==
    IF i >= n THEN [labels |-> labels, cluster_id |-> cluster_id, queues |-> <<>>]
    ELSE IF labels[i] # -2
    THEN BlockScan(points, n, eps_sq, min_pts, i + 1, labels, cluster_id)
    ELSE IF count_neighbors(points, n, i, eps_sq) < min_pts
    THEN BlockScan(points, n, eps_sq, min_pts, i + 1,
                   [labels EXCEPT ![i] = -1], cluster_id)
    ELSE BlockSeeded(points, n, eps_sq, min_pts, i,
                     [labels EXCEPT ![i] = cluster_id], cluster_id)

\* Lines 65-81: the seed i carries the cluster id in labelled; its
\* unlabelled neighbours are queued.
BlockSeeded(points, n, eps_sq, min_pts, i, labelled, cluster_id) ==
    BlockQueued(points, n, eps_sq, min_pts, i, labelled, cluster_id,
                BlockReachable(points, n, i, eps_sq, labelled))

BlockQueued(points, n, eps_sq, min_pts, i, labelled, cluster_id, queue) ==
    BlockExpanded(points, n, eps_sq, min_pts, i, cluster_id,
                  BlockExpand(points, n, eps_sq, min_pts, queue, 0,
                              MarkAll(labelled, queue, -3), cluster_id))

\* Line 109 and the rest of the loop over i, with the queue of the
\* expansion put before those of the later ones.
BlockExpanded(points, n, eps_sq, min_pts, i, cluster_id, expanded) ==
    [BlockScan(points, n, eps_sq, min_pts, i + 1, expanded.labels, cluster_id + 1)
       EXCEPT !.queues = <<[seed |-> i, queue |-> expanded.queue]>> \o @]

\* Lines 128-147: the mean of the points labelled c.
BlockCentroid(points, n, labels, c) ==
    MeanAt(points, SelectSeq(Indices(n), LAMBDA i : labels[i] = c))

\* block_dbscan on the n points of a block: the representatives returned,
\* with the labels, the number of clusters and the queue of every
\* expansion the call had when it freed them.
\* Lines 125-151: a centroid for each of the clusters, then the noise points.
BlockRepresentatives(points, n, labels, clusters, noise) ==
    [t \in 1..Len(clusters) |-> BlockCentroid(points, n, labels, clusters[t])]
    \o [t \in 1..Len(noise) |-> points[noise[t]]]

\* Lines 114-153 on the result of the loop over i.
BlockResult(points, n, scan) ==
    [representatives |->
         BlockRepresentatives(
             points, n, scan.labels,
             SelectSeq(Indices(scan.cluster_id),
                       LAMBDA c : \E i \in 0..n-1 : scan.labels[i] = c),
             SelectSeq(Indices(n), LAMBDA i : scan.labels[i] = -1)),
     labels |-> scan.labels,
     cluster_id |-> scan.cluster_id,
     queues |-> scan.queues]

block_dbscan(points, n, eps, min_pts) ==
    BlockResult(points, n,
                BlockScan(points, n, RMul(eps, eps), min_pts, 0,
                          [i \in 0..n-1 |-> -2], 0))

\* A slot of block_results that no worker has written.
Pending ==
    [representatives |-> <<>>, labels |-> <<>>, cluster_id |-> Untouched,
     queues |-> <<>>]

HyIdle ==
    [pc |-> "idle", points |-> <<>>, n |-> 0, k |-> 0, block_size |-> 0,
     dbscan_eps |-> RInt(0), dbscan_min_pts |-> 0, kmeans_max_iter |-> 0,
     kmeans_threshold |-> RInt(0), centroids |-> <<>>, seed |-> U64Zero,
     actual_max_iter |-> 0, num_blocks |-> 0, block_results |-> <<>>,
     finished |-> {}, all_representatives |-> <<>>, ret |-> Untouched,
     requested_k |-> 0, dbscan_calls |-> 0, gathered |-> <<>>,
     out_of_order |-> FALSE, first |-> <<>>]

\* The frame of a call of hybrid_cluster with a centroids buffer of ncent
\* entries the callee has not written.  requested_k, dbscan_calls, gathered
\* and out_of_order record the run: the k of the caller, the calls of
\* block_dbscan, the representatives before padding, and whether a block
\* finished after a block of higher index.
HyCall(points, n, k, block_size, dbscan_eps, dbscan_min_pts, kmeans_max_iter, kmeans_threshold, seed, ncent) ==
    [HyIdle EXCEPT !.pc = "call", !.points = points, !.n = n, !.k = k,
                   !.requested_k = k, !.block_size = block_size,
                   !.dbscan_eps = dbscan_eps, !.dbscan_min_pts = dbscan_min_pts,
                   !.kmeans_max_iter = kmeans_max_iter,
                   !.kmeans_threshold = kmeans_threshold, !.seed = seed,
                   !.centroids = [c \in 0..ncent-1 |-> Untouched]]

\* An iteration budget that ignores k.
UnadjustedMaxIter(k, kmeans_max_iter) == kmeans_max_iter

\* Lines 174-176.
actual_max_iter(k, kmeans_max_iter) ==
    IF k > 100 THEN 20
    ELSE IF k > 32 THEN 30
    ELSE kmeans_max_iter

\* Line 171: the calls that return 0 at once.
HyDegenerate(n, k) == n = 0 \/ k <= 0

\* Lines 171-186.  A call with n <= 2 * block_size hands all points to
\* kmeans_cluster; the other calls set up one result slot per block.
HybridEnter ==
    /\ hy.pc = "call"
    /\ IF HyDegenerate(hy.n, hy.k)
       THEN /\ hy' = [hy EXCEPT !.pc = "done", !.ret = 0]
            /\ km' = km
       ELSE \E reduced \in {IF hy.k > hy.n THEN hy.n ELSE hy.k} :
            \E budget \in {actual_max_iter(reduced, hy.kmeans_max_iter)} :
            \E blocks \in {(hy.n + hy.block_size - 1) \div hy.block_size} :
                IF hy.n <= hy.block_size * 2
                THEN /\ km.pc = "idle"
                     /\ hy' = [hy EXCEPT !.pc = "direct", !.k = reduced,
                                         !.actual_max_iter = budget]
                     /\ km' = KmCall(hy.points, hy.n, reduced, budget,
                                     hy.kmeans_threshold, hy.seed,
                                     Cardinality(DOMAIN hy.centroids), hy.n)
                ELSE /\ hy' = [hy EXCEPT !.pc = "blocks", !.k = reduced,
                                         !.actual_max_iter = budget,
                                         !.num_blocks = blocks,
                                         !.block_results =
                                             [b \in 0..blocks-1 |-> Pending]]
                     /\ km' = km
    /\ UNCHANGED <<db, im, cl, strm, sp, nn>>

\* A worker that stores its result at the position of its completion.
SlotByCompletion(b, completed) == completed

\* Line 201: the slot of block b, completed blocks having finished.
SlotOf(b, completed) == b

\* Lines 195-202: the iteration for block b.  With more than four blocks
\* the iterations run on parallel workers and finish in any order;
\* otherwise they run in ascending order.
HybridBlock ==
    /\ hy.pc = "blocks"
    /\ \E b \in (0..hy.num_blocks-1) \ hy.finished :
         /\ hy.num_blocks > 4 \/ \A c \in 0..b-1 : c \in hy.finished
         /\ \E start \in {b * hy.block_size} :
            \E block_n \in {Min2(start + hy.block_size, hy.n) - start} :
                hy' = [hy EXCEPT !.block_results[SlotOf(b, Cardinality(hy.finished))] =
                                     block_dbscan(
                                         [i \in 0..block_n-1 |-> hy.points[start + i]],
                                         block_n, hy.dbscan_eps, hy.dbscan_min_pts),
                                 !.finished = @ \cup {b},
                                 !.dbscan_calls = @ + 1,
                                 !.out_of_order =
                                     @ \/ \E c \in hy.finished : c > b]
    /\ UNCHANGED <<db, km, im, cl, strm, sp, nn>>

RECURSIVE PadFromInclusive(_, _, _, _, _)
RECURSIVE PadFrom(_, _, _, _, _)

\* Lines 230-234: the point drawn with the generator state x is appended
\* and the loop goes on.
PadDrawn(representatives, k, points, n, x, inclusive) ==
    IF inclusive
    THEN PadFromInclusive(Append(representatives, points[xorshift64_int(x, n)]),
                          k, points, n, x)
    ELSE PadFrom(Append(representatives, points[xorshift64_int(x, n)]),
                 k, points, n, x)

\* A padding loop that draws once more when the count has reached k.
PadFromInclusive(representatives, k, points, n, rng) ==
    IF Len(representatives) > k THEN representatives
    ELSE PadDrawn(representatives, k, points, n, xorshift64_next(rng), TRUE)

\* Lines 228-236: representatives padded with random input points up to k.
PadFrom(representatives, k, points, n, rng) ==
    IF Len(representatives) >= k THEN representatives
    ELSE PadDrawn(representatives, k, points, n, xorshift64_next(rng), FALSE)

\* Lines 204-241, once every block has its result: the slots are
\* concatenated in ascending order, padded, and handed to kmeans_cluster.
HybridGather ==
    /\ hy.pc = "blocks"
    /\ hy.finished = 0..hy.num_blocks-1
    /\ km.pc = "idle"
    /\ \E reps \in {Flatten([t \in 1..hy.num_blocks |->
                                 hy.block_results[t - 1].representatives])} :
         \E padded \in {PadFrom(reps, hy.k, hy.points, hy.n,
                                 xorshift64_init(hy.seed))} :
           /\ hy' = [hy EXCEPT !.pc = "cluster", !.gathered = reps,
                               !.all_representatives = padded]
           /\ km' = KmCall([i \in 0..Len(padded)-1 |-> padded[i + 1]],
                           Len(padded), hy.k, hy.actual_max_iter,
                           hy.kmeans_threshold, hy.seed,
                           Cardinality(DOMAIN hy.centroids), Len(padded))
    /\ UNCHANGED <<db, im, cl, strm, sp, nn>>

\* Lines 183 and 246: kmeans_cluster has returned; its centroids are in the
\* buffer of the caller and its iteration count is returned.
HybridReturn ==
    /\ hy.pc \in {"direct", "cluster"}
    /\ km.pc = "done"
    /\ hy' = [hy EXCEPT !.pc = "done", !.ret = km.ret, !.centroids = km.centroids]
    /\ UNCHANGED <<db, km, im, cl, strm, sp, nn>>

\* What a call of hybrid_cluster hands back.
HyOutcome(h) == [centroids |-> h.centroids, ret |-> h.ret]

\* The caller calls hybrid_cluster a second time with the same arguments
\* and the centroids buffer as the first call left it.
HybridAgain ==
    /\ hy.pc = "done"
    /\ DOMAIN hy.first = {}
    /\ hy' = [HyCall(hy.points, hy.n, hy.requested_k, hy.block_size, hy.dbscan_eps,
                     hy.dbscan_min_pts, hy.kmeans_max_iter, hy.kmeans_threshold,
                     hy.seed, 0)
                 EXCEPT !.centroids = hy.centroids, !.first = HyOutcome(hy)]
    /\ km' = KmIdle
    /\ UNCHANGED <<db, im, cl, strm, sp, nn>>


(***************************************************************************)
(* image.c: resynthesize_image and posterize_image.                        *)
(*                                                                         *)
(* A packed pixel (uint32_t) is <<high, low>>, its two 16-bit halves.  An   *)
(* entry of a target palette is a triple of whole numbers; a component of  *)
(* a source palette is an exact rational or Huge, a float of 2^31 or more. *)
(* The build is the one without __AVX2__.  The calls are those in which    *)
(* malloc succeeds.                                                        *)
(***************************************************************************)
LUT_DIM == 128
SHIFT == 1
LutMaxPalette == 4096
IntMax == 2147483647
IntMin == (0 - IntMax) - 1

\* 255.0f / (LUT_DIM - 1), as an exact rational.
LUT_SCALE == <<255, LUT_DIM - 1>>

\* A float so large that adding a pixel offset and 0.5 leaves it above
\* INT_MAX.
Huge == <<1, 0>>

\* What (int)x yields when x is outside the range of int, where the
\* conversion is undefined: 0x80000000 from cvttss2si, INT_MAX from a
\* saturating conversion.
ConvOutcomes == {IntMin, IntMax}

\* (int)x: truncation towards zero.
FloatToInt(x, ub) == IF x = Huge THEN ub ELSE TruncDiv(x[1], x[2])

\* source + offset + 0.5f.
PlusHalf(s, offset) ==
    IF s = Huge THEN Huge ELSE RAdd(RAdd(s, RInt(offset)), <<1, 2>>)

\* The uint32_t with the bits of the int x.
Word(x) == <<(x \div Limb) % Limb, x % Limb>>

\* a | b on words: x | y = (x + y + (x ^ y)) / 2 on each half.
WordOr(a, b) ==
    <<(a[1] + b[1] + BitXor(a[1], b[1])) \div 2, (a[2] + b[2] + BitXor(a[2], b[2])) \div 2>>

\* (uint32_t)((r << 16) | (g << 8) | b) on 32-bit ints, the shifts keeping
\* the low 32 bits.
PackRGB(r, g, b) ==
    LET wr == Word(r)
        wg == Word(g)
    IN  WordOr(WordOr(<<wr[2], 0>>,
                      <<(wg[1] * 256 + (wg[2] \div 256)) % Limb, (wg[2] * 256) % Limb>>),
               Word(b))

\* (pixel >> 16) & 0xFF, (pixel >> 8) & 0xFF, pixel & 0xFF.
PixelPoint(pixel) == <<pixel[1] % 256, pixel[2] \div 256, pixel[2] % 256>>

\* perceptual_distance_sq on two points given in units of 1/unit: the
\* result is in units of 1/unit^2.
perceptual_distance_sq(a, b, unit) ==
    LET dr == a[1] - b[1]
        dg == a[2] - b[2]
        dblue == a[3] - b[3]
        low == (a[1] + b[1]) < 2 * 128 * unit
        wr == IF low THEN 2 ELSE 3
        wb == IF low THEN 3 ELSE 2
    IN  wr * dr * dr + 4 * dg * dg + wb * dblue * dblue

\* The first index of the least distance: nearest starts at 0 and moves
\* only on a strictly smaller distance.
find_nearest_perceptual(point, palette, k, unit) ==
    LET dist == SubSeq([t \in 1..k |->
                          perceptual_distance_sq(point,
                              <<unit * palette[t - 1][1], unit * palette[t - 1][2],
                                unit * palette[t - 1][3]>>, unit)], 1, k)
        least == MinOf(Range(dist))
    IN  MinOf({t \in 1..k : dist[t] = least}) - 1

\* The index the LUT path uses for a pixel: lut[(ri << 14) | (gi << 7) | bi]
\* with ri = pr >> SHIFT and so on, the entry nearest to the point
\* (ri, gi, bi) * LUT_SCALE.  The table is a function of the target palette
\* alone and is read here entry by entry instead of being stored.
LutClosest(pixel, target_palette, palette_size) ==
    LET p == PixelPoint(pixel)
        ri == p[1] \div (2 ^ SHIFT)
        gi == p[2] \div (2 ^ SHIFT)
        bi == p[3] \div (2 ^ SHIFT)
    IN  find_nearest_perceptual(
            <<ri * LUT_SCALE[1], gi * LUT_SCALE[1], bi * LUT_SCALE[1]>>,
            target_palette, palette_size, LUT_SCALE[2])

\* The index the direct path uses for a pixel.
DirectClosest(pixel, target_palette, palette_size) ==
    find_nearest_perceptual(PixelPoint(pixel), target_palette, palette_size, 1)

ClosestIndex(pixel, target_palette, palette_size) ==
    IF palette_size > LutMaxPalette
    THEN DirectClosest(pixel, target_palette, palette_size)
    ELSE LutClosest(pixel, target_palette, palette_size)

Clamp255(v) == IF v < 0 THEN 0 ELSE IF v > 255 THEN 255 ELSE v

\* resynthesize_image without the offset of the pixel from its target entry.
ResynthesizeWithoutOffset(pixel, target_center, source_center, ub) ==
    PackRGB(Clamp255(FloatToInt(PlusHalf(source_center[1], 0), ub)),
            Clamp255(FloatToInt(PlusHalf(source_center[2], 0), ub)),
            Clamp255(FloatToInt(PlusHalf(source_center[3], 0), ub)))

\* The word resynthesize_image writes for a pixel and its palette index.
ResynthesizeWord(pixel, target_center, source_center, ub) ==
    LET p == PixelPoint(pixel)
        r == FloatToInt(PlusHalf(source_center[1], p[1] - target_center[1]), ub)
        g == FloatToInt(PlusHalf(source_center[2], p[2] - target_center[2]), ub)
        b == FloatToInt(PlusHalf(source_center[3], p[3] - target_center[3]), ub)
    IN  PackRGB(Clamp255(r), Clamp255(g), Clamp255(b))

\* The word posterize_image writes for a palette index.
PosterizeWord(source_center, ub) ==
    PackRGB(FloatToInt(PlusHalf(source_center[1], 0), ub),
            FloatToInt(PlusHalf(source_center[2], 0), ub),
            FloatToInt(PlusHalf(source_center[3], 0), ub))

\* The content of an output word the callee has not written.
Unwritten == <<>>

ImIdle == [pc |-> "idle"]

ImCall(op, image_pixels, width, height, target_palette, source_palette, palette_size, pass, first) ==
    [pc |-> "call", op |-> op, image_pixels |-> image_pixels, width |-> width,
     height |-> height, n |-> 0, target_palette |-> target_palette,
     source_palette |-> source_palette, palette_size |-> palette_size,
     output_pixels |-> [i \in 0..(width * height - 1) |-> Unwritten],
     closest |-> [i \in 0..(width * height - 1) |-> Untouched],
     pass |-> pass, first |-> first]

\* int n = width * height; the LUT, when there is one, is built.
ImageEnter ==
    /\ im.pc = "call"
    /\ im' = [im EXCEPT !.pc = "remap", !.n = im.width * im.height]
    /\ UNCHANGED <<db, km, hy, cl, strm, sp, nn>>

\* One iteration of the parallel loop over the pixels, in any order.
ImagePixel ==
    /\ im.pc = "remap"
    /\ \E i \in 0..(im.n - 1) :
         /\ im.output_pixels[i] = Unwritten
         /\ \E ub \in ConvOutcomes :
              LET pixel == im.image_pixels[i]
                  idx == ClosestIndex(pixel, im.target_palette, im.palette_size)
                  word == IF im.op = "resynthesize"
                          THEN ResynthesizeWord(pixel, im.target_palette[idx],
                                                im.source_palette[idx], ub)
                          ELSE PosterizeWord(im.source_palette[idx], ub)
              IN  im' = [im EXCEPT !.output_pixels[i] = word, !.closest[i] = idx]
    /\ UNCHANGED <<db, km, hy, cl, strm, sp, nn>>

ImageReturn ==
    /\ im.pc = "remap"
    /\ \A i \in 0..(im.n - 1) : im.output_pixels[i] # Unwritten
    /\ im' = [im EXCEPT !.pc = "done"]
    /\ UNCHANGED <<db, km, hy, cl, strm, sp, nn>>

\* A palette of whole numbers in 0..255, and the same palette as a target.
WholePalette(palette, k) ==
    {j \in 0..(k - 1) :
       \E c \in 1..3 : palette[j][c][2] # 1 \/ palette[j][c][1] \notin 0..255} = {}

AsTarget(palette, k) ==
    [j \in 0..(k - 1) |-> <<palette[j][1][1], palette[j][2][1], palette[j][3][1]>>]

\* The caller posterizes the result again, with the source palette in both
\* places.
ImageAgain ==
    /\ im.pc = "done"
    /\ im.op = "posterize"
    /\ im.pass = 1
    /\ WholePalette(im.source_palette, im.palette_size)
    /\ im' = ImCall("posterize", im.output_pixels, im.width, im.height,
                    AsTarget(im.source_palette, im.palette_size), im.source_palette,
                    im.palette_size, 2, im.output_pixels)
    /\ UNCHANGED <<db, km, hy, cl, strm, sp, nn>>

(***************************************************************************)
(* opencl_accel.c: the process-wide context g_cl, opencl_init and          *)
(* opencl_cleanup.                                                         *)
(*                                                                         *)
(* A handle is 0 (NULL) or the index of a device object in cl.objects,     *)
(* which records for every object created its kind and how many times it   *)
(* was released.  The callers are threads; a step of opencl_init is one    *)
(* OpenCL call with the assignments and releases that follow it.  The      *)
(* palette buffers, which opencl_init does not create, are left out.       *)
(***************************************************************************)
NumThreads == 2
MaxCalls == 3

Kernels == <<"build_lut_kernel", "resynthesize_lut_kernel", "resynthesize_direct_kernel">>

HandleFields == {"context", "queue", "program", "lut_buffer"} \cup Range(Kernels)

\* static OpenCLState g_cl = {0}, no thread running and no call left to make.
ClIdle ==
    [g |-> [f \in HandleFields \cup {"initialized"} |-> 0],
     objects |-> <<>>,
     thread |-> [t \in 1..NumThreads |-> [pc |-> "idle", ret |-> Untouched]],
     calls |-> MaxCalls, overlap |-> FALSE, failed |-> FALSE, cleanups |-> 0]

\* clRelease* on the handles held in the given fields.
Released(objects, g, fields) ==
    [i \in DOMAIN objects |->
       [objects[i] EXCEPT !.releases = @ + Cardinality({f \in fields : g[f] = i})]]

\* cleanup_opencl_resources: every non-NULL handle is released, then
\* memset(&g_cl, 0, sizeof(g_cl)).
cleanup_opencl_resources(c) ==
    [c EXCEPT !.objects = Released(c.objects, c.g, HandleFields), !.g = ClIdle.g]

\* What the failure branch of a step releases.
ReleasedOnFailure(pc) ==
    CASE pc = "context" -> {}
      [] pc = "queue" -> {"context"}
      [] pc = "program" -> {"queue", "context"}
      [] pc = "build" -> {"program", "queue", "context"}

StepAfter(pc) ==
    CASE pc = "context" -> "queue"
      [] pc = "queue" -> "program"
      [] pc = "program" -> "build"
      [] pc = "build" -> "kernels"

\* return ret from opencl_init.
InitReturns(c, t, ret) ==
    [c EXCEPT !.thread[t].pc = "idle", !.thread[t].ret = ret, !.failed = @ \/ ret # 0]

\* A thread calls opencl_init: lines 210-212.
OpenclInitEnter ==
    /\ \E t \in 1..NumThreads :
         /\ cl.thread[t].pc = "idle"
         /\ cl.calls < MaxCalls
         /\ LET entered == [cl EXCEPT !.calls = @ + 1,
                                      !.overlap = @ \/ \E u \in 1..NumThreads :
                                                         cl.thread[u].pc # "idle"]
            IN  cl' = IF cl.g["initialized"] # 0
                      THEN [entered EXCEPT !.thread[t].ret = 0]
                      ELSE [entered EXCEPT !.thread[t].pc = "select"]
    /\ UNCHANGED <<db, km, hy, im, strm, sp, nn>>

\* select_best_device, lines 214-217.
InitSelect ==
    /\ \E t \in 1..NumThreads :
         /\ cl.thread[t].pc = "select"
         /\ \E ok \in BOOLEAN :
              cl' = IF ok THEN [cl EXCEPT !.thread[t].pc = "context"]
                    ELSE InitReturns(cl, t, 0 - 1)
    /\ UNCHANGED <<db, km, hy, im, strm, sp, nn>>

\* clCreateContext, clCreateCommandQueue, clCreateProgramWithSource and
\* clBuildProgram, lines 221-256: a failed creation stores NULL; the failure
\* branch releases the handles made before and returns -1.
InitCreate ==
    /\ \E t \in 1..NumThreads :
         /\ cl.thread[t].pc \in {"context", "queue", "program", "build"}
         /\ \E ok \in BOOLEAN :
              LET pc == cl.thread[t].pc
                  made == IF pc = "build" THEN cl
                          ELSE IF ok
                          THEN [cl EXCEPT !.objects = Append(@, [kind |-> pc, releases |-> 0]),
                                          !.g[pc] = Len(cl.objects) + 1]
                          ELSE [cl EXCEPT !.g[pc] = 0]
              IN  cl' = IF ok THEN [made EXCEPT !.thread[t].pc = StepAfter(pc)]
                        ELSE InitReturns([made EXCEPT !.objects =
                                            Released(made.objects, made.g, ReleasedOnFailure(pc))],
                                         t, 0 - 1)
    /\ UNCHANGED <<db, km, hy, im, strm, sp, nn>>

\* The three clCreateKernel calls and their test, lines 258-266.
InitKernels ==
    /\ \E t \in 1..NumThreads :
         /\ cl.thread[t].pc = "kernels"
         /\ \E failing \in {{}} \cup {{f} : f \in Range(Kernels)} :
              LET created == SelectSeq(Kernels, LAMBDA f : f \notin failing)
                  made == [cl EXCEPT
                             !.objects = @ \o [i \in 1..Len(created) |->
                                                 [kind |-> created[i], releases |-> 0]],
                             !.g = [f \in DOMAIN cl.g |->
                                      IF f \in failing THEN 0
                                      ELSE IF f \in Range(created)
                                      THEN Len(cl.objects)
                                             + (CHOOSE i \in 1..Len(created) : created[i] = f)
                                      ELSE cl.g[f]]]
              IN  cl' = IF failing = {} THEN [made EXCEPT !.thread[t].pc = "lut"]
                        ELSE InitReturns(cleanup_opencl_resources(made), t, 0 - 1)
    /\ UNCHANGED <<db, km, hy, im, strm, sp, nn>>

\* clCreateBuffer for the LUT and g_cl.initialized = 1, lines 268-283.
InitLut ==
    /\ \E t \in 1..NumThreads :
         /\ cl.thread[t].pc = "lut"
         /\ \E ok \in BOOLEAN :
              cl' = IF ok
                    THEN InitReturns([cl EXCEPT
                                        !.objects = Append(@, [kind |-> "lut_buffer", releases |-> 0]),
                                        !.g["lut_buffer"] = Len(cl.objects) + 1,
                                        !.g["initialized"] = 1], t, 0)
                    ELSE InitReturns(cleanup_opencl_resources([cl EXCEPT !.g["lut_buffer"] = 0]),
                                     t, 0 - 1)
    /\ UNCHANGED <<db, km, hy, im, strm, sp, nn>>

\* A thread calls opencl_cleanup, lines 286-301.
OpenclCleanup ==
    /\ \E t \in 1..NumThreads :
         /\ cl.thread[t].pc = "idle"
         /\ cl.calls < MaxCalls
         /\ cl' = [cleanup_opencl_resources(cl) EXCEPT
                     !.calls = @ + 1, !.cleanups = @ + 1,
                     !.overlap = @ \/ \E u \in 1..NumThreads : cl.thread[u].pc # "idle"]
    /\ UNCHANGED <<db, km, hy, im, strm, sp, nn>>

(***************************************************************************)
(* opencl_accel.c: opencl_resynthesize_streaming.                          *)
(*                                                                         *)
(* strm.buffers records the tile buffers created by the call, with the     *)
(* number of times each was released; a handle is 0 (NULL) or an index in  *)
(* it.  The command queue is in order (clCreateCommandQueue with           *)
(* properties 0): strm.queue holds the commands enqueued and not yet       *)
(* executed, strm.completed those the device has executed, oldest first.   *)
(***************************************************************************)
TargetTileBytes == 268435456

\* A tile height that is clamped and not rounded down.
TileHeightUnrounded(width, height, tile_height) ==
    IF tile_height > 0 THEN tile_height
    ELSE LET wanted == (TargetTileBytes \div (width * 4)) \div 2
             atleast == IF wanted < 64 THEN 64 ELSE wanted
         IN  IF atleast > height THEN height ELSE atleast

\* Lines 458-466.
TileHeight(width, height, tile_height) ==
    IF tile_height > 0 THEN tile_height
    ELSE LET wanted == (TargetTileBytes \div (width * 4)) \div 2
             atleast == IF wanted < 64 THEN 64 ELSE wanted
             atmost == IF atleast > height THEN height ELSE atleast
             rounded == (atmost \div 64) * 64
         IN  IF rounded = 0 THEN height ELSE rounded

StIdle == [pc |-> "idle"]

\* requested records the tile_height of the caller.
StCall(width, height, tile_height, initialized) ==
    [pc |-> "call", width |-> width, height |-> height, tile_height |-> tile_height,
     requested |-> tile_height,
     initialized |-> initialized, ret |-> Untouched, buffers |-> <<>>,
     input_buffers |-> <<0, 0>>, output_buffers |-> <<0, 0>>, i |-> 0,
     num_tiles |-> 0, tile |-> 0, buffer_idx |-> 0, queue |-> <<>>, completed |-> <<>>]

\* clReleaseMemObject on each of the handles.
StReleased(buffers, handles) ==
    [b \in DOMAIN buffers |->
       [buffers[b] EXCEPT !.releases = @ + Cardinality({h \in DOMAIN handles : handles[h] = b})]]

\* The label cleanup, lines 553-558.
StreamFail(s) ==
    [s EXCEPT !.buffers = StReleased(s.buffers, s.input_buffers \o s.output_buffers),
              !.pc = "done", !.ret = 0 - 1]

\* The command of the current tile on its rows.
TileCommand(s, op) ==
    LET y_start == s.tile * s.tile_height
    IN  [op |-> op, tile |-> s.tile, buffer_idx |-> s.buffer_idx, y_start |-> y_start,
         current_tile_height |-> IF y_start + s.tile_height > s.height
                                 THEN s.height - y_start ELSE s.tile_height]

\* Lines 454-477: opencl_init when needed, the tile height, build_lut_gpu
\* and the upload of the source palette; each of the three can fail.
StreamEnter ==
    /\ strm.pc = "call"
    /\ \E failure \in {"none", "opencl_init", "build_lut_gpu", "source_palette"} :
         /\ failure = "opencl_init" => strm.initialized = 0
         /\ strm' = IF failure = "none"
                    THEN [strm EXCEPT !.pc = "alloc", !.initialized = 1,
                                      !.tile_height = TileHeight(strm.width, strm.height, @)]
                    ELSE [strm EXCEPT !.pc = "done", !.ret = 0 - 1]
    /\ UNCHANGED <<db, km, hy, im, cl, sp, nn>>

\* One iteration of the loop of lines 483-493: err is that of the second
\* clCreateBuffer; a failure releases the pairs of the earlier iterations.
StreamAlloc ==
    /\ strm.pc = "alloc"
    /\ \E input_ok \in BOOLEAN :
         \E output_ok \in BOOLEAN :
           LET i == strm.i
               n == Len(strm.buffers)
               made == (IF input_ok THEN <<[kind |-> "input", releases |-> 0]>> ELSE <<>>)
                         \o (IF output_ok THEN <<[kind |-> "output", releases |-> 0]>> ELSE <<>>)
               s == [strm EXCEPT
                       !.buffers = @ \o made,
                       !.input_buffers[i + 1] = IF input_ok THEN n + 1 ELSE 0,
                       !.output_buffers[i + 1] = IF output_ok THEN n + Len(made) ELSE 0,
                       !.i = i + 1]
           IN  strm' = IF ~output_ok
                       THEN [s EXCEPT !.buffers = StReleased(s.buffers,
                                                     SubSeq(s.input_buffers, 1, i)
                                                       \o SubSeq(s.output_buffers, 1, i)),
                                      !.pc = "done", !.ret = 0 - 1]
                       ELSE IF i + 1 < 2 THEN s
                       ELSE LET num_tiles == (s.height + s.tile_height - 1) \div s.tile_height
                            IN  [s EXCEPT !.num_tiles = num_tiles,
                                          !.pc = IF num_tiles > 0 THEN "upload" ELSE "finish"]
    /\ UNCHANGED <<db, km, hy, im, cl, sp, nn>>

\* clEnqueueWriteBuffer, lines 504-512; it fails on a NULL buffer.
StreamUpload ==
    /\ strm.pc = "upload"
    /\ \E ok \in BOOLEAN :
         /\ ok => strm.input_buffers[strm.buffer_idx + 1] # 0
         /\ strm' = IF ok
                    THEN [strm EXCEPT !.queue = Append(@, TileCommand(strm, "write")),
                                      !.pc = "kernel"]
                    ELSE StreamFail(strm)
    /\ UNCHANGED <<db, km, hy, im, cl, sp, nn>>

\* clEnqueueNDRangeKernel after the upload, lines 514-531.
StreamKernel ==
    /\ strm.pc = "kernel"
    /\ \E ok \in BOOLEAN :
         strm' = IF ok
                 THEN [strm EXCEPT !.queue = Append(@, TileCommand(strm, "kernel")),
                                   !.pc = "read"]
                 ELSE StreamFail(strm)
    /\ UNCHANGED <<db, km, hy, im, cl, sp, nn>>

\* clEnqueueReadBuffer after the kernel, lines 533-544.
StreamRead ==
    /\ strm.pc = "read"
    /\ \E ok \in BOOLEAN :
         strm' = IF ~ok THEN StreamFail(strm)
                 ELSE LET s == [strm EXCEPT !.queue = Append(@, TileCommand(strm, "read"))]
                      IN  IF s.tile = s.num_tiles - 1 THEN [s EXCEPT !.pc = "wait"]
                          ELSE [s EXCEPT !.pc = "upload", !.tile = @ + 1,
                                         !.buffer_idx = 1 - @]
    /\ UNCHANGED <<db, km, hy, im, cl, sp, nn>>

\* The host returns without clWaitForEvents.
StreamWaitSkipped ==
    /\ strm.pc = "wait"
    /\ strm' = [strm EXCEPT !.pc = "finish"]
    /\ UNCHANGED <<db, km, hy, im, cl, sp, nn>>

\* clWaitForEvents on the read of the last tile, lines 539-541: the host
\* goes on when the device has executed that command.
StreamWait ==
    /\ strm.pc = "wait"
    /\ \E c \in Range(strm.completed) : c.op = "read" /\ c.tile = strm.num_tiles - 1
    /\ strm' = [strm EXCEPT !.pc = "finish"]
    /\ UNCHANGED <<db, km, hy, im, cl, sp, nn>>

\* Lines 547-551.
StreamReturn ==
    /\ strm.pc = "finish"
    /\ strm' = [strm EXCEPT !.buffers = StReleased(@, strm.input_buffers \o strm.output_buffers),
                            !.pc = "done", !.ret = 0]
    /\ UNCHANGED <<db, km, hy, im, cl, sp, nn>>

\* The device executes the oldest command of the queue.
StreamDevice ==
    /\ strm.pc # "idle"
    /\ strm.queue # <<>>
    /\ strm' = [strm EXCEPT !.queue = Tail(@), !.completed = Append(@, Head(strm.queue))]
    /\ UNCHANGED <<db, km, hy, im, cl, sp, nn>>

(***************************************************************************)
(* image.c: extract_pixels, sample_pixels and sample_pixels_from_image.    *)
(*                                                                         *)
(* The calls are those with 0 <= input_size and 0 <= sample_size.  The     *)
(* output buffer has sample_size slots.  In pass 1 the caller runs         *)
(* extract_pixels and then sample_pixels; in pass 2 it runs the fused      *)
(* sample_pixels_from_image on the same image with the same sample_size    *)
(* and seed, and sp.first keeps what pass 1 returned.                      *)
(***************************************************************************)
\* The three (float) casts of extract_pixels for one pixel.
ExtractPoint(pixel) == ToFloat(PixelPoint(pixel))

extract_pixels(image_pixels, n) ==
    [i \in 0..(n - 1) |-> ExtractPoint(image_pixels[i])]

\* The same three casts as sample_pixels_from_image writes them out.
FusedPointUnmasked(pixel) == ToFloat(<<pixel[1], pixel[2] \div 256, pixel[2] % 256>>)

FusedPoint(pixel) ==
    ToFloat(<<pixel[1] % 256, (pixel[2] \div 256) % 256, pixel[2] % 256>>)

\* xorshift64_int(&rng, i + 1) on the value x that xorshift64_next returned.
ReservoirSlotNarrow(x, i) == xorshift64_int(x, Max2(i, 1))

ReservoirSlot(x, i) == xorshift64_int(x, i + 1)

\* output[j] = p when j < sample_size.
ReservoirStore(output, j, sample_size, p) ==
    IF j < sample_size THEN [output EXCEPT ![j] = p] ELSE output

\* memcpy(output, input, count * sizeof(ColorPoint3f))
CopyPoints(output, input, count) ==
    [s \in DOMAIN output |-> IF s < count THEN input[s] ELSE output[s]]

SpIdle == [pc |-> "idle"]

SpCall(image_pixels, total_pixels, sample_size, seed, pass, first) ==
    [pc |-> "called", image_pixels |-> image_pixels, total_pixels |-> total_pixels,
     sample_size |-> sample_size, seed |-> seed, pass |-> pass, first |-> first,
     input |-> <<>>, output |-> [s \in 0..(sample_size - 1) |-> Unwritten],
     rng |-> U64Zero, i |-> 0, ret |-> 0]

\* The caller's extract_pixels on the whole image.
SampleExtract ==
    /\ sp.pc = "called" /\ sp.pass = 1
    /\ sp' = [sp EXCEPT !.pc = "extracted",
                        !.input = extract_pixels(sp.image_pixels, sp.total_pixels)]
    /\ UNCHANGED <<db, km, hy, im, cl, strm, nn>>

\* sample_pixels up to its loop.
SampleEnter ==
    /\ sp.pc = "extracted"
    /\ sp' = IF sp.total_pixels <= sp.sample_size
             THEN [sp EXCEPT !.pc = "done",
                             !.output = CopyPoints(sp.output, sp.input, sp.total_pixels),
                             !.ret = sp.total_pixels]
             ELSE [sp EXCEPT !.pc = "loop",
                             !.rng = xorshift64_init(sp.seed),
                             !.output = CopyPoints(sp.output, sp.input, sp.sample_size),
                             !.i = sp.sample_size]
    /\ UNCHANGED <<db, km, hy, im, cl, strm, nn>>

\* One iteration of the loop of sample_pixels.
SampleDraw ==
    /\ sp.pc = "loop" /\ sp.pass = 1 /\ sp.i < sp.total_pixels
    /\ LET x == xorshift64_next(sp.rng)
           j == ReservoirSlot(x, sp.i)
       IN  sp' = [sp EXCEPT !.rng = x, !.i = sp.i + 1,
                            !.output = ReservoirStore(sp.output, j, sp.sample_size,
                                                      sp.input[sp.i])]
    /\ UNCHANGED <<db, km, hy, im, cl, strm, nn>>

SampleReturn ==
    /\ sp.pc = "loop" /\ sp.pass = 1 /\ sp.i >= sp.total_pixels
    /\ sp' = [sp EXCEPT !.pc = "done", !.ret = sp.sample_size]
    /\ UNCHANGED <<db, km, hy, im, cl, strm, nn>>

\* What a call of sample_pixels hands back.
SpOutcome(f) == [output |-> f.output, ret |-> f.ret]

\* The caller calls sample_pixels a second time with the same arguments and
\* the output buffer as the first call left it; the locals rng and i hold
\* what the first call left in them.
SampleRerun ==
    /\ sp.pc = "done" /\ sp.pass = 1
    /\ DOMAIN sp.first = {}
    /\ sp' = [sp EXCEPT !.pc = "extracted", !.ret = 0, !.first = SpOutcome(sp)]
    /\ UNCHANGED <<db, km, hy, im, cl, strm, nn>>

\* The caller calls sample_pixels_from_image on the image it sampled.
SampleAgain ==
    /\ sp.pc = "done" /\ sp.pass = 1
    /\ sp' = SpCall(sp.image_pixels, sp.total_pixels, sp.sample_size, sp.seed, 2,
                    [ret |-> sp.ret, output |-> sp.output, rng |-> sp.rng])
    /\ UNCHANGED <<db, km, hy, im, cl, strm, nn>>

\* sample_pixels_from_image up to its second loop.
FusedEnter ==
    /\ sp.pc = "called" /\ sp.pass = 2
    /\ sp' = IF sp.total_pixels <= sp.sample_size
             THEN [sp EXCEPT !.pc = "done",
                             !.output = CopyPoints(sp.output,
                                                   extract_pixels(sp.image_pixels,
                                                                  sp.total_pixels),
                                                   sp.total_pixels),
                             !.ret = sp.total_pixels]
             ELSE [sp EXCEPT !.pc = "loop",
                             !.rng = xorshift64_init(sp.seed),
                             !.output = [s \in DOMAIN sp.output |->
                                           FusedPoint(sp.image_pixels[s])],
                             !.i = sp.sample_size]
    /\ UNCHANGED <<db, km, hy, im, cl, strm, nn>>

\* One iteration of the second loop of sample_pixels_from_image.
FusedDraw ==
    /\ sp.pc = "loop" /\ sp.pass = 2 /\ sp.i < sp.total_pixels
    /\ LET x == xorshift64_next(sp.rng)
           j == ReservoirSlot(x, sp.i)
       IN  sp' = [sp EXCEPT !.rng = x, !.i = sp.i + 1,
                            !.output = ReservoirStore(sp.output, j, sp.sample_size,
                                                      FusedPoint(sp.image_pixels[sp.i]))]
    /\ UNCHANGED <<db, km, hy, im, cl, strm, nn>>

FusedReturn ==
    /\ sp.pc = "loop" /\ sp.pass = 2 /\ sp.i >= sp.total_pixels
    /\ sp' = [sp EXCEPT !.pc = "done", !.ret = sp.sample_size]
    /\ UNCHANGED <<db, km, hy, im, cl, strm, nn>>

(***************************************************************************)
(* The lane-wise nearest searches: find_nearest_sse of distance.c and      *)
(* find_nearest_perceptual_avx2 of image.c (the build with __AVX2__).      *)
(*                                                                         *)
(* A caller runs the lane-wise search and then the scalar search on the    *)
(* same point and array.  The points of the perceptual search are whole    *)
(* numbers.                                                                *)
(***************************************************************************)
\* wr * dr2 + (wg * dg2 + wb * db2) of a lane: the weights are chosen once,
\* from avg_r = pr, the point's own first component.
Avx2LaneDistance(point, entry) ==
    LET dr == point[1] - entry[1]
        dg == point[2] - entry[2]
        dblue == point[3] - entry[3]
        low == point[1] < 128
        wr == IF low THEN 2 ELSE 3
        wb == IF low THEN 3 ELSE 2
    IN  wr * dr * dr + (4 * dg * dg + wb * dblue * dblue)

\* find_nearest_perceptual_avx2: eight lanes at a time while i + 7 < k, then
\* perceptual_distance_sq for the remaining entries; nearest starts at 0
\* with min_dist = 1e30f and moves only on a strictly smaller distance.  The
\* distances of the model are below 1e30.
find_nearest_perceptual_avx2(point, palette, k) ==
    LET lanes == 8 * (k \div 8)
        dist == SubSeq([t \in 1..k |->
                          IF t - 1 < lanes
                          THEN Avx2LaneDistance(point, palette[t - 1])
                          ELSE perceptual_distance_sq(point, palette[t - 1], 1)],
                       1, k)
        least == MinOf(Range(dist))
    IN  MinOf({t \in 1..k : dist[t] = least}) - 1

NnIdle == [pc |-> "idle"]

NnCall(op, point, entries, k) ==
    [pc |-> "called", op |-> op, point |-> point, entries |-> entries, k |-> k,
     lanes |-> Untouched, scalar |-> Untouched]

\* The lane-wise search of the call.
NearestLanes ==
    /\ nn.pc = "called"
    /\ nn' = [nn EXCEPT !.pc = "searched",
                        !.lanes = IF nn.op = "sse"
                                  THEN find_nearest_sse(nn.point, nn.entries, nn.k)
                                  ELSE find_nearest_perceptual_avx2(nn.point, nn.entries,
                                                                    nn.k)]
    /\ UNCHANGED <<db, km, hy, im, cl, strm, sp>>

\* The scalar search on the same point and array.
NearestScalar ==
    /\ nn.pc = "searched"
    /\ nn' = [nn EXCEPT !.pc = "done",
                        !.scalar = IF nn.op = "sse"
                                   THEN find_nearest_centroid(nn.point, nn.entries, nn.k)
                                   ELSE find_nearest_perceptual(nn.point, nn.entries,
                                                                nn.k, 1)]
    /\ UNCHANGED <<db, km, hy, im, cl, strm, sp>>

(***************************************************************************)
(* Calls of resynthesize_image and posterize_image.                        *)
(***************************************************************************)
MaxWidth == 2
MaxPalette == 2
WidePalette == 4097

Pixel(a, r, g, b) == <<a * 256 + r, g * 256 + b>>

\* Pixels without and with the 0xFF tag in the top byte.
ImPixelSet == {Pixel(0, 11, 11, 11), Pixel(255, 10, 10, 10), Pixel(0, 201, 12, 10)}

ImTargetSet == {<<10, 10, 10>>, <<11, 11, 11>>, <<0, 0, 0>>, <<200, 12, 9>>}

\* The target colours, a colour with components above 255 and below 0, a
\* colour with fractions and a colour with a component beyond INT_MAX.
ImSourceSet ==
    {ToFloat(c) : c \in ImTargetSet}
      \cup {<<RInt(300), RInt(20), RInt(0 - 2)>>,
            <<<<1, 2>>, <<777, 10>>, RInt(255)>>,
            <<Huge, RInt(0 - 5), RInt(300)>>}

\* A palette of WidePalette entries: two chosen entries, then a filler.
Padded(first, second, filler) ==
    [j \in 0..(WidePalette - 1) |-> IF j = 0 THEN first ELSE IF j = 1 THEN second ELSE filler]

ImInit ==
    \E op \in {"resynthesize", "posterize"} :
      \E width \in 0..MaxWidth :
        \E image_pixels \in [0..(width - 1) -> ImPixelSet] :
          \/ \E k \in 1..MaxPalette :
               \E target_palette \in [0..(k - 1) -> ImTargetSet] :
                 \E source_palette \in [0..(k - 1) -> ImSourceSet] :
                   im = ImCall(op, image_pixels, width, 1, target_palette,
                               source_palette, k, 1, <<>>)
          \/ /\ width = 1
             /\ im = ImCall(op, image_pixels, width, 1,
                            Padded(<<10, 10, 10>>, <<11, 11, 11>>, <<40, 40, 40>>),
                            Padded(ToFloat(<<0, 0, 0>>), ToFloat(<<200, 12, 9>>),
                                   ToFloat(<<40, 40, 40>>)),
                            WidePalette, 1, <<>>)

InitImage == ImInit /\ db = DbIdle /\ km = KmIdle /\ hy = HyIdle /\ cl = ClIdle /\ strm = StIdle /\ sp = SpIdle /\ nn = NnIdle

NextImage ==
    \/ ImageEnter
    \/ ImagePixel
    \/ ImageReturn
    \/ ImageAgain

SpecImage == InitImage /\ [][NextImage]_vars


(***************************************************************************)
(* Threads calling opencl_init and opencl_cleanup.                         *)
(***************************************************************************)
InitOpencl ==
    /\ cl = [ClIdle EXCEPT !.calls = 0]
    /\ db = DbIdle /\ km = KmIdle /\ hy = HyIdle /\ im = ImIdle /\ strm = StIdle /\ sp = SpIdle /\ nn = NnIdle

NextOpencl ==
    \/ OpenclInitEnter
    \/ InitSelect
    \/ InitCreate
    \/ InitKernels
    \/ InitLut
    \/ OpenclCleanup

SpecOpencl == InitOpencl /\ [][NextOpencl]_vars

(***************************************************************************)
(* Calls of opencl_resynthesize_streaming.                                 *)
(***************************************************************************)
MaxHeight == 5
MaxTileHeight == 2
TallHeight == 130

WideWidth == 300000
RowQuantum == 64

\* Images of up to MaxHeight rows with the tile height given or computed,
\* and images of RowQuantum - 1, RowQuantum and TallHeight rows, one
\* pixel or WideWidth pixels wide, whose tile height is computed: 128 rows
\* fit the tile of the narrow image of TallHeight rows, 111 that of the wide one.
StInit ==
    \E initialized \in 0..1 :
      \/ \E height \in 1..MaxHeight :
           \E tile_height \in (0 - 1)..MaxTileHeight :
             strm = StCall(1, height, tile_height, initialized)
      \/ \E width \in {1, WideWidth} :
           \E height \in {RowQuantum - 1, RowQuantum, TallHeight} :
             \E tile_height \in (0 - 1)..0 :
               strm = StCall(width, height, tile_height, initialized)

InitStreaming ==
    /\ StInit
    /\ db = DbIdle /\ km = KmIdle /\ hy = HyIdle /\ im = ImIdle /\ cl = ClIdle /\ sp = SpIdle /\ nn = NnIdle

NextStreaming ==
    \/ StreamEnter
    \/ StreamAlloc
    \/ StreamUpload
    \/ StreamKernel
    \/ StreamRead
    \/ StreamWait
    \/ StreamReturn
    \/ StreamDevice

SpecStreaming == InitStreaming /\ [][NextStreaming]_vars

InitDbscan == DbInit /\ km = KmIdle /\ hy = HyIdle /\ im = ImIdle /\ cl = ClIdle /\ strm = StIdle /\ sp = SpIdle /\ nn = NnIdle

NextDbscan ==
    \/ DbscanEnter
    \/ DbscanSkip
    \/ DbscanNoise
    \/ DbscanSeed
    \/ DbscanPop
    \/ DbscanClose
    \/ DbscanReturn

SpecDbscan == InitDbscan /\ [][NextDbscan]_vars

(***************************************************************************)
(* Calls of sample_pixels and sample_pixels_from_image.                    *)
(***************************************************************************)
MaxInput == 6
MaxSample == 3

\* Four pixels of different colours, two of them with a non-zero top byte.
SpPixels == <<Pixel(0, 11, 11, 11), Pixel(255, 10, 10, 10),
              Pixel(0, 201, 12, 10), Pixel(128, 0, 255, 7)>>

\* Seed 0 (replaced by 42), seed 1 and a seed with all four limbs set.
SpSeedSet == {U64Zero, U64(1), U64FromLimbs(<<43327, 47289, 11658, 60463>>)}

SpImage(n, shift) == [i \in 0..(n - 1) |-> SpPixels[((i + shift) % 4) + 1]]

SpInit ==
    \E n \in 0..MaxInput :
      \E shift \in 0..3 :
        \E sample_size \in 0..MaxSample :
          \E seed \in SpSeedSet :
            sp = SpCall(SpImage(n, shift), n, sample_size, seed, 1, <<>>)

InitSample ==
    /\ SpInit
    /\ db = DbIdle /\ km = KmIdle /\ hy = HyIdle /\ im = ImIdle /\ cl = ClIdle
    /\ strm = StIdle /\ nn = NnIdle

NextSample ==
    \/ SampleExtract
    \/ SampleEnter
    \/ SampleDraw
    \/ SampleReturn
    \/ SampleAgain
    \/ FusedEnter
    \/ FusedDraw
    \/ FusedReturn

SpecSample == InitSample /\ [][NextSample]_vars

(***************************************************************************)
(* Calls of the nearest searches.                                          *)
(***************************************************************************)
MaxLanesK == 5

\* Centroids on one axis, two of them at the same distance from 1.
NnCentroidSet == {ToFloat(<<0, 0, 0>>), ToFloat(<<2, 0, 0>>), ToFloat(<<5, 0, 0>>)}

NnPointSet == {ToFloat(<<1, 0, 0>>), ToFloat(<<5, 0, 0>>)}

\* Palette entries around a point with c1 = 100: one whose avg_r with it is
\* 130, the others below 128.
NnPaletteSet == {<<100, 0, 155>>, <<160, 0, 100>>, <<100, 30, 100>>}

\* A palette of k >= 8 entries: first and second, six entries far from
\* every point, and last in the entries after the lanes.
NnPalette(first, second, last, k) ==
    [i \in 0..(k - 1) |->
       IF i = 0 THEN first ELSE IF i = 1 THEN second
       ELSE IF i < 8 THEN <<100, 255, 100>> ELSE last]

NnInit ==
    \/ \E k \in 4..MaxLanesK :
         \E point \in NnPointSet :
           \E centroids \in [0..(k - 1) -> NnCentroidSet] :
             nn = NnCall("sse", point, centroids, k)
    \/ \E k \in 8..9 :
         \E point \in {<<100, 0, 100>>, <<200, 0, 100>>} :
           \E first, second, last \in NnPaletteSet :
             nn = NnCall("avx2", point, NnPalette(first, second, last, k), k)

InitNearest ==
    /\ NnInit
    /\ db = DbIdle /\ km = KmIdle /\ hy = HyIdle /\ im = ImIdle /\ cl = ClIdle
    /\ strm = StIdle /\ sp = SpIdle

NextNearest ==
    \/ NearestLanes
    \/ NearestScalar

SpecNearest == InitNearest /\ [][NextNearest]_vars

(***************************************************************************)
(* Calls of kmeans_cluster.                                                *)
(***************************************************************************)
MaxKPoints == 4
MaxK == 4
MaxIter == 2

\* Three distinct points on a line.
KPointSet == {<<0, 0, 0>>, <<1, 0, 0>>, <<2, 0, 0>>}

\* k, with a non-positive and values above n.
KSet == (0 - 1)..MaxK

ThresholdSet == {RInt(0), RInt(1)}

\* Seed 0 (replaced by 42), seed 1 and 0xEC2F2D8AB8B9A93F, one of the seeds
\* whose second draw is below 2^11, so that the first D^2 threshold is 0.
SeedSet == {U64Zero, U64(1), U64FromLimbs(<<43327, 47289, 11658, 60463>>)}

KmInit ==
    \E n \in 0..MaxKPoints :
      \E points \in [0..n-1 -> KPointSet] :
        \E k \in KSet :
          \E max_iterations \in 0..MaxIter :
            \E thr \in ThresholdSet :
              \E seed \in SeedSet :
                km = KmCall([i \in 0..n-1 |-> ToFloat(points[i])], n, k, max_iterations,
                            thr, seed, MaxK, MaxKPoints)

InitKmeans == KmInit /\ db = DbIdle /\ hy = HyIdle /\ im = ImIdle /\ cl = ClIdle /\ strm = StIdle /\ sp = SpIdle /\ nn = NnIdle

NextKmeans ==
    \/ KmeansEnter
    \/ KmeansSeed
    \/ KmeansSweep
    \/ KmeansReturn

SpecKmeans == InitKmeans /\ [][NextKmeans]_vars

(***************************************************************************)
(* hybrid_cluster on bounded inputs.                                       *)
(***************************************************************************)
MaxBlocks == 5
MaxBlockSize == 3
MaxHK == 3
WideN == 33
WiderN == 101

\* The first three points of an input, which repeats them cyclically.
HBaseSet == {<<0, 1, 2>>, <<1, 0, 2>>, <<0, 2, 2>>, <<0, 0, 0>>}

HPoints(base, n) == [i \in 0..n-1 |-> ToFloat(<<base[(i % 3) + 1], 0, 0>>)]

HSeedSet == {U64Zero, U64FromLimbs(<<43327, 47289, 11658, 60463>>)}

\* Calls of up to MaxBlocks blocks with k up to MaxHK, calls of three
\* blocks with k around n, which pad the representatives, calls with k above
\* 32 on WideN points and on fewer points, and a call with k above 100 on
\* WiderN points.
HyInit ==
    \/ \E block_size \in 1..MaxBlockSize :
         \E n \in 0..(MaxBlocks * block_size) :
           \E base \in HBaseSet :
             \E k \in (0 - 1)..MaxHK :
               \E min_pts \in 2..MaxMinPts :
                 \E max_iter \in 1..MaxIter :
                   \E thr \in ThresholdSet :
                     \E seed \in HSeedSet :
                       hy = HyCall(HPoints(base, n), n, k, block_size, RInt(MaxEps),
                                   min_pts, max_iter, thr, seed, WideN)
    \/ \E base \in HBaseSet :
         \E k \in (2 * MaxBlockSize)..(2 * MaxBlockSize + 2) :
           \E seed \in HSeedSet :
             hy = HyCall(HPoints(base, 2 * MaxBlockSize + 1), 2 * MaxBlockSize + 1,
                         k, MaxBlockSize, RInt(MaxEps), 2, 1, RInt(0), seed, WideN)
    \/ \E base \in HBaseSet :
         \E n \in {MaxHK, WideN} :
           hy = HyCall(HPoints(base, n), n, WideN, WideN, RInt(MaxEps),
                       MaxMinPts, 1, RInt(0), U64Zero, WideN)
    \/ hy = HyCall(HPoints(<<0, 1, 2>>, WiderN), WiderN, WiderN, WiderN, RInt(MaxEps),
                   MaxMinPts, 1, RInt(0), U64Zero, WiderN)

InitHybrid == HyInit /\ db = DbIdle /\ km = KmIdle /\ im = ImIdle /\ cl = ClIdle /\ strm = StIdle /\ sp = SpIdle /\ nn = NnIdle

NextHybrid ==
    \/ HybridEnter
    \/ HybridBlock
    \/ HybridGather
    \/ HybridReturn
    \/ KmeansEnter
    \/ KmeansSeed
    \/ KmeansSweep
    \/ KmeansReturn

SpecHybrid == InitHybrid /\ [][NextHybrid]_vars

(***************************************************************************)
(* The three entry points together.                                        *)
(***************************************************************************)
\* A caller with a degenerate call of each of the three functions in
\* flight: dbscan_cluster with n = 0, kmeans_cluster and hybrid_cluster
\* with n = 0 or k <= 0.
InitDegenerate ==
    /\ DbInit /\ db.n = 0
    /\ \E n \in 0..1 :
         \E k \in (0 - 1)..1 :
           /\ KmDegenerate(n, k)
           /\ km = KmCall(HPoints(<<0, 1, 2>>, n), n, k, 1, RInt(1), U64Zero,
                          MaxK, MaxKPoints)
    /\ \E n \in 0..1 :
         \E k \in (0 - 1)..1 :
           /\ HyDegenerate(n, k)
           /\ hy = HyCall(HPoints(<<0, 1, 2>>, n), n, k, 1, RInt(MaxEps), MaxMinPts,
                          1, RInt(1), U64Zero, MaxHK)
    /\ im = ImIdle /\ cl = ClIdle /\ strm = StIdle /\ sp = SpIdle /\ nn = NnIdle

Init == InitDbscan \/ InitKmeans \/ InitHybrid \/ InitDegenerate

Next ==
    \/ DbscanEnter
    \/ DbscanSkip
    \/ DbscanNoise
    \/ DbscanSeed
    \/ DbscanPop
    \/ DbscanClose
    \/ DbscanReturn
    \/ KmeansEnter
    \/ KmeansSeed
    \/ KmeansSweep
    \/ KmeansReturn
    \/ HybridEnter
    \/ HybridBlock
    \/ HybridGather
    \/ HybridReturn

Spec == Init /\ [][Next]_vars

(***************************************************************************)
(* A caller that repeats its call.                                         *)
(***************************************************************************)
\* The calls of dbscan_cluster on MaxPoints points or more, of
\* kmeans_cluster on MaxKPoints points with MaxIter sweeps allowed, of
\* hybrid_cluster in the block path with blocks of MaxBlockSize points, and
\* of sample_pixels with more input than slots.
InitRerun ==
    \/ InitDbscan /\ db.n >= MaxPoints
    \/ InitKmeans /\ km.n = MaxKPoints /\ km.max_iterations = MaxIter
    \/ InitHybrid /\ hy.block_size = MaxBlockSize /\ hy.n > 2 * MaxBlockSize
    \/ InitSample /\ sp.total_pixels > sp.sample_size

NextRerun ==
    \/ DbscanEnter
    \/ DbscanSkip
    \/ DbscanNoise
    \/ DbscanSeed
    \/ DbscanPop
    \/ DbscanClose
    \/ DbscanReturn
    \/ DbscanAgain
    \/ KmeansEnter
    \/ KmeansSeed
    \/ KmeansSweep
    \/ KmeansReturn
    \/ KmeansAgain
    \/ HybridEnter
    \/ HybridBlock
    \/ HybridGather
    \/ HybridReturn
    \/ HybridAgain
    \/ SampleExtract
    \/ SampleEnter
    \/ SampleDraw
    \/ SampleReturn
    \/ SampleRerun

SpecRerun == InitRerun /\ [][NextRerun]_vars


(***************************************************************************)
(* Properties of dbscan_cluster.                                           *)
(***************************************************************************)
\* The points within eps of point i, by brute force over all n points.
\* The points within eps of point i, by the distance of the real numbers.
RealWithin(p, q, eps) ==
    LET d == [c \in 1..3 |-> Abs(p[c] - q[c])]
    IN  /\ \A c \in 1..3 : d[c] <= eps
        /\ DWLe(DWAdd(DWAdd(DWSquare(d[1]), DWSquare(d[2])), DWSquare(d[3])),
                DWSquare(eps))

BruteNeighbors(st, i) ==
    {j \in 0..st.n-1 : RealWithin(st.points[i], st.points[j], st.eps)}

\* A core point: at least min_pts points within eps, itself included.
IsCore(st, i) == Cardinality(BruteNeighbors(st, i)) >= st.min_pts

DbReturned == db.pc = "done" /\ db.n > 0

\* C1: after dbscan_cluster returns, a point with at least min_pts points
\* within eps (itself included) is not labelled NOISE, and a point with
\* fewer that has no such core point within eps is labelled NOISE.
C1_CorePointProperty ==
    DbReturned =>
        \A i \in 0..db.n-1 :
            /\ IsCore(db, i) => db.labels[i] # DBSCAN_NOISE
            /\ (~IsCore(db, i) /\ \A j \in BruteNeighbors(db, i) : ~IsCore(db, j))
                   => db.labels[i] = DBSCAN_NOISE

\* A returned call with a core point, a point that stayed noise, and a
\* border point that was visited (and marked noise) before the core points
\* next to it.
C1_Witness ==
    /\ DbReturned
    /\ \E i \in 0..db.n-1 : IsCore(db, i) /\ db.labels[i] >= 0
    /\ \E i \in 0..db.n-1 :
          /\ ~IsCore(db, i)
          /\ \A j \in BruteNeighbors(db, i) : ~IsCore(db, j)
          /\ db.labels[i] = DBSCAN_NOISE
    /\ \E b \in 0..db.n-1 :
          /\ ~IsCore(db, b)
          /\ \E j \in BruteNeighbors(db, b) : IsCore(db, j)
          /\ \A j \in BruteNeighbors(db, b) : IsCore(db, j) => b < j
          /\ db.labels[b] >= 0

\* C2: when dbscan_cluster returns with n > 0, every label is NOISE or a
\* cluster id below the return value; none is UNCLASSIFIED or anything else.
C2_LabelsInRange ==
    DbReturned =>
        \A i \in 0..db.n-1 :
            db.labels[i] = DBSCAN_NOISE \/ db.labels[i] \in 0..(db.ret - 1)

\* A returned call with a cluster, a border point promoted from noise, and
\* a point left as noise.
C2_Witness ==
    /\ DbReturned
    /\ db.ret >= 1
    /\ \E i \in 0..db.n-1 : db.labels[i] = DBSCAN_NOISE
    /\ \E i \in 0..db.n-1 : ~IsCore(db, i) /\ db.labels[i] = db.ret - 1

\* C3: the return value is max(labels) + 1, or 0 when every label is NOISE:
\* every cluster id below it is held by at least one point at return.
C3_ReturnIsMaxLabelPlusOne ==
    DbReturned =>
        /\ db.ret = MaxOf({db.labels[i] : i \in 0..db.n-1} \cup {DBSCAN_NOISE}) + 1
        /\ \A c \in 0..(db.ret - 1) : \E i \in 0..db.n-1 : db.labels[i] = c

\* A returned call with two clusters, both still populated.
C3_Witness ==
    /\ DbReturned
    /\ db.ret = 2
    /\ \E i \in 0..db.n-1 : db.labels[i] = 0
    /\ \E i \in 0..db.n-1 : db.labels[i] = 1

(***************************************************************************)
(* Properties of kmeans_cluster                                            *)
(***************************************************************************)
KmRan == km.n > 0 /\ km.requested_k > 0 /\ km.max_iterations >= 1

\* The convergence test on the values the last sweep left in the frame.
KmTestMet ==
    /\ km.sweeps > 0
    /\ \/ km.changed = 0
       \/ /\ RLt(RInt(0), km.convergence_threshold)
          /\ RLt(km.max_movement,
                 RMul(km.convergence_threshold, km.convergence_threshold))

\* C6: with n > 0, k > 0 and max_iterations >= 1 the sweep is repeated until
\* the first sweep that meets the convergence test (movement below the
\* threshold or no assignment changed) or until max_iterations sweeps; the
\* value returned is the number of sweeps executed, the terminating one
\* included, and lies in 1..max_iterations.
C6_ReturnCountsSweeps ==
    KmRan =>
      /\ km.sweeps <= km.max_iterations
      /\ km.pc = "loop" => ~KmTestMet
      /\ km.pc = "break" => KmTestMet
      /\ km.pc = "done" =>
           /\ km.ret = km.sweeps
           /\ km.ret >= 1 /\ km.ret <= km.max_iterations
           /\ KmTestMet \/ km.sweeps = km.max_iterations

\* A run that stopped on its first sweep with budget left, because no
\* assignment changed while the centroids still moved.
C6_Witness ==
    /\ KmRan /\ km.pc = "done"
    /\ km.ret = 1 /\ km.max_iterations = 2
    /\ km.changed = 0 /\ km.max_movement # RInt(0)

PairwiseDistinct(points, n) ==
    \A i, j \in 0..n-1 : i # j => points[i] # points[j]

\* C8: called with k >= n on n pairwise-distinct points and
\* max_iterations >= 1, kmeans_cluster reduces k to n and returns, for every
\* seed, centroids that are as a set the input points.
C8_CentroidsAreThePoints ==
    (/\ km.pc = "done" /\ KmRan
     /\ km.requested_k >= km.n
     /\ PairwiseDistinct(km.points, km.n))
    => /\ km.k = km.n
       /\ {km.centroids[c] : c \in 0..km.n-1} = {km.points[i] : i \in 0..km.n-1}


(***************************************************************************)
(* Properties of hybrid_cluster                                            *)
(***************************************************************************)
\* The points of block b of the call in hy, as an array on 0..block_n-1.
BlockOf(b) ==
    LET start == b * hy.block_size
        block_n == Min2(start + hy.block_size, hy.n) - start
    IN  [i \in 0..block_n-1 |-> hy.points[start + i]]

BlockLen(b) == Cardinality(DOMAIN BlockOf(b))

WithinEps(p, q) ==
    RLe(distance_squared(p, q), RMul(hy.dbscan_eps, hy.dbscan_eps))

\* Point i of block b has at least min_pts points of the block, itself
\* included, within eps.
CoreInBlock(b, i) ==
    Cardinality({j \in DOMAIN BlockOf(b) : WithinEps(BlockOf(b)[i], BlockOf(b)[j])})
        >= hy.dbscan_min_pts

\* Noise of the glossary: neither a core point nor within eps of one.
NoiseInBlock(b, i) ==
    /\ ~CoreInBlock(b, i)
    /\ \A j \in DOMAIN BlockOf(b) :
         CoreInBlock(b, j) => ~WithinEps(BlockOf(b)[i], BlockOf(b)[j])

\* The mean of the points of array ps at the indices of the non-empty set S.
MeanOf(ps, S) ==
    LET ms == SelectSeq(Indices(Cardinality(DOMAIN ps)), LAMBDA i : i \in S)
        sum(d) == RSum([t \in 1..Len(ms) |-> ps[ms[t]][d]])
    IN  <<RDivInt(sum(1), Len(ms)), RDivInt(sum(2), Len(ms)),
          RDivInt(sum(3), Len(ms))>>

\* The points of array ps at the indices of the set S, in ascending order.
PointsAt(ps, S) ==
    LET ms == SelectSeq(Indices(Cardinality(DOMAIN ps)), LAMBDA i : i \in S)
    IN  [t \in 1..Len(ms) |-> ps[ms[t]]]

\* C4: in the block path every block contributes one representative per
\* cluster, the mean of the members of the cluster, followed verbatim by
\* exactly the points of the block that are noise of the glossary (neither
\* core nor within eps of a core point of the block); a border point is
\* never emitted verbatim.
C4_BlockRepresentatives ==
    \A b \in hy.finished :
      LET r == hy.block_results[b]
          clusters == [c \in 1..r.cluster_id |->
                         MeanOf(BlockOf(b), {i \in DOMAIN BlockOf(b) : r.labels[i] = c - 1})]
          noise == PointsAt(BlockOf(b), {i \in DOMAIN BlockOf(b) : NoiseInBlock(b, i)})
      IN  r.representatives = clusters \o noise

\* The representatives of block b in the order of the sequential loop: the
\* centroids in ascending cluster id, then the noise points in ascending
\* point index.
SequentialBlock(b) ==
    LET r == block_dbscan(BlockOf(b), BlockLen(b), hy.dbscan_eps, hy.dbscan_min_pts)
    IN  [c \in 1..r.cluster_id |->
            MeanOf(BlockOf(b), {i \in DOMAIN BlockOf(b) : r.labels[i] = c - 1})]
        \o PointsAt(BlockOf(b), {i \in DOMAIN BlockOf(b) : r.labels[i] = -1})

SequentialRepresentatives ==
    Flatten([t \in 1..hy.num_blocks |-> SequentialBlock(t - 1)])

\* C5: when the blocks run on parallel workers, the representatives handed
\* to K-Means are, whatever the order in which the workers finish, those of
\* the sequential loop: blocks in ascending index, and within a block the
\* centroids in ascending cluster id followed by the noise points in
\* ascending point index.
C5_ParallelEqualsSequential ==
    (hy.pc \in {"cluster", "done"} /\ hy.num_blocks > 4) =>
      /\ hy.gathered = SequentialRepresentatives
      /\ hy.all_representatives =
           PadFrom(SequentialRepresentatives, hy.k, hy.points, hy.n,
                   xorshift64_init(hy.seed))
      /\ hy.pc = "cluster" /\ km.pc = "call" =>
           /\ km.n = Len(hy.all_representatives)
           /\ \A i \in 0..km.n-1 : km.points[i] = hy.all_representatives[i + 1]

\* Parallel workers finished out of order on blocks whose representatives
\* differ, and the representatives have been handed to K-Means.
C5_Witness ==
    /\ hy.pc = "cluster" /\ km.pc = "call"
    /\ hy.num_blocks > 4
    /\ hy.out_of_order
    /\ \E s, t \in 1..Len(hy.gathered) : hy.gathered[s] # hy.gathered[t]

\* The budget of the direct call: 20 for k above 100, 30 for k above 32,
\* kmeans_max_iter otherwise, k being at most n.
DirectBudget ==
    LET k == Min2(hy.requested_k, hy.n)
    IN  IF k > 100 THEN 20
        ELSE IF k > 32 THEN 30
        ELSE hy.kmeans_max_iter

\* The frame of kmeans_cluster called on all n points with the k, threshold
\* and seed of the call in hy and the adjusted budget.
DirectCall ==
    KmCall(hy.points, hy.n, hy.requested_k, DirectBudget, hy.kmeans_threshold,
           hy.seed, Cardinality(DOMAIN hy.centroids), hy.n)

\* C10: a call with n <= 2 * block_size runs no DBSCAN and returns the
\* centroids and the iteration count of kmeans_cluster on all n points with
\* the same k, threshold and seed and the budget adjusted by k.  The frame
\* kmeans_cluster is called with enters as the frame of that call does, and
\* what it returns is returned; for the calls below WideN points the values
\* returned are compared with kmeans_cluster run from call to return.
C10_DirectPathIsKmeans ==
    (/\ hy.pc \in {"direct", "done"}
     /\ hy.n > 0 /\ hy.requested_k > 0
     /\ hy.n <= 2 * hy.block_size)
    => /\ hy.dbscan_calls = 0
       /\ km.pc = "call" =>
            [KmEntered(km) EXCEPT !.requested_k = hy.requested_k]
                = KmEntered(DirectCall)
       /\ hy.pc = "done" =>
            /\ km.pc = "done"
            /\ hy.ret = km.ret
            /\ hy.centroids = km.centroids
       /\ (hy.pc = "done" /\ hy.n < WideN) =>
            LET ref == kmeans_cluster(hy.points, hy.n, hy.requested_k, DirectBudget,
                                      hy.kmeans_threshold, hy.seed,
                                      Cardinality(DOMAIN hy.centroids), hy.n)
            IN  hy.ret = ref.ret /\ hy.centroids = ref.centroids

\* A direct call with k above 32 that ran more sweeps than kmeans_max_iter.
C10_Witness ==
    /\ hy.pc = "done"
    /\ hy.n > 0 /\ hy.n <= 2 * hy.block_size
    /\ hy.k > 32
    /\ hy.ret > hy.kmeans_max_iter

RoundNearest(x) ==
    IF x[1] >= 0 THEN (2 * x[1] + x[2]) \div (2 * x[2])
    ELSE 0 - ((x[2] - 2 * x[1]) \div (2 * x[2]))

\* round(s + offset) clamped to [0, 255]; Huge rounds to a number above 255.
RoundedChannel(s, offset) ==
    IF s = Huge THEN 255 ELSE Clamp255(RoundNearest(RAdd(s, RInt(offset))))

\* The pixels a call has written so far.
Written == {i \in DOMAIN im.output_pixels : im.output_pixels[i] # Unwritten}

\* The word with zero top byte and the given channels.
Channels(r, g, b) == <<r, g * 256 + b>>

\* C12: every pixel resynthesize_image writes has, in each channel,
\* round(source_palette[i] + (p - target_palette[i])) clamped to [0, 255],
\* i being the index chosen for the pixel p, and has no bit outside the
\* three channel fields, for any palette contents.
C12_ResynthesizedChannels ==
    (im.pc # "idle" /\ im.op = "resynthesize") =>
      \A i \in Written :
        LET p == PixelPoint(im.image_pixels[i])
            t == im.target_palette[im.closest[i]]
            s == im.source_palette[im.closest[i]]
        IN  im.output_pixels[i] = Channels(RoundedChannel(s[1], p[1] - t[1]),
                                           RoundedChannel(s[2], p[2] - t[2]),
                                           RoundedChannel(s[3], p[3] - t[3]))

\* C13: every pixel posterize_image writes has round(source_palette[i])
\* clamped to [0, 255] in each channel and no bit outside the three channel
\* fields, for any source palette contents.
C13_PosterizedChannels ==
    (im.pc # "idle" /\ im.op = "posterize") =>
      \A i \in Written :
        LET s == im.source_palette[im.closest[i]]
        IN  im.output_pixels[i] = Channels(RoundedChannel(s[1], 0),
                                           RoundedChannel(s[2], 0),
                                           RoundedChannel(s[3], 0))

\* C14: posterize(posterize(image, T, S), S, S) = posterize(image, T, S)
\* for palettes with components in [0, 255].
C14_PosterizeIdempotent ==
    (im.pc = "done" /\ im.op = "posterize" /\ im.pass = 2) =>
      im.output_pixels = im.first

\* A resynthesize_image call that returned and whose source palette is its
\* target palette.
SamePaletteDone ==
    /\ im.pc = "done"
    /\ im.op = "resynthesize"
    /\ WholePalette(im.source_palette, im.palette_size)
    /\ AsTarget(im.source_palette, im.palette_size) = im.target_palette

ChannelsWithin(v, w, d) ==
    \A c \in 1..3 : Abs(PixelPoint(v)[c] - PixelPoint(w)[c]) <= d

C16_LutAgreesWithDirect ==
    (im.pc # "idle" /\ im.op = "resynthesize") =>
      \A i \in Written :
        \A ub \in ConvOutcomes :
          LET pixel == im.image_pixels[i]
              l == LutClosest(pixel, im.target_palette, im.palette_size)
              d == DirectClosest(pixel, im.target_palette, im.palette_size)
          IN  ChannelsWithin(
                  ResynthesizeWord(pixel, im.target_palette[l], im.source_palette[l], ub),
                  ResynthesizeWord(pixel, im.target_palette[d], im.source_palette[d], ub),
                  1)

(***************************************************************************)
(* Properties of opencl_init and opencl_cleanup.                           *)
(***************************************************************************)
NoCallRunning == \A t \in 1..NumThreads : cl.thread[t].pc = "idle"

ObjectsOfKind(kind) == {i \in DOMAIN cl.objects : cl.objects[i].kind = kind}

\* C17: under any interleaving of opencl_init callers the context, queue,
\* program, kernels and LUT buffer are each created once and none is
\* overwritten or leaked; opencl_init on an initialized context returns 0
\* and creates nothing; opencl_cleanup releases every device object and
\* leaves the context uninitialized.  Stated for runs in which no OpenCL
\* call failed.
C17_SingleTransition ==
    ~cl.failed =>
      /\ cl.cleanups = 0 =>
           \A kind \in HandleFields :
             /\ Cardinality(ObjectsOfKind(kind)) <= 1
             /\ \A i \in ObjectsOfKind(kind) :
                  cl.g[kind] = i /\ cl.objects[i].releases = 0
      /\ cl.g["initialized"] # 0 =>
           \A kind \in HandleFields :
             cl.g[kind] # 0 /\ cl.objects[cl.g[kind]].releases = 0
      /\ (cl.g["initialized"] = 0 /\ NoCallRunning) =>
           /\ \A kind \in HandleFields : cl.g[kind] = 0
           /\ \A i \in DOMAIN cl.objects : cl.objects[i].releases = 1

\* C20: after any sequence of opencl_init calls, each succeeding or failing
\* at any step, and opencl_cleanup calls, a context that is not initialized
\* holds no device object handle, and no device object is ever released
\* twice.  Stated for calls made one after the other.
C20_NoStaleHandle ==
    ~cl.overlap =>
      /\ (cl.g["initialized"] = 0 /\ NoCallRunning) =>
           \A kind \in HandleFields : cl.g[kind] = 0
      /\ \A i \in DOMAIN cl.objects : cl.objects[i].releases <= 1

(***************************************************************************)
(* Properties of opencl_resynthesize_streaming.                            *)
(***************************************************************************)
\* C18: when opencl_resynthesize_streaming returns a failure code, every
\* tile buffer it created during the call has been released, whatever the
\* stage of the failure.
C18_FailureReleasesBuffers ==
    (strm.pc = "done" /\ strm.ret # 0) =>
      \A b \in DOMAIN strm.buffers : strm.buffers[b].releases >= 1

OpRank(op) == CASE op = "write" -> 1 [] op = "kernel" -> 2 [] op = "read" -> 3

\* The commands of an operation executed on a row.
ExecutedOn(op, row) ==
    {j \in DOMAIN strm.completed :
       /\ strm.completed[j].op = op
       /\ row >= strm.completed[j].y_start
       /\ row < strm.completed[j].y_start + strm.completed[j].current_tile_height}

\* C19: tile i uses the buffer pair i mod 2; its upload, kernel and readback
\* complete in this order; when the call returns success every tile's three
\* commands have completed, and every row of [0, height), and no other row,
\* was uploaded, remapped and read back exactly once.
C19_TilesInOrder ==
    strm.pc # "idle" =>
      /\ \A c \in Range(strm.queue) \cup Range(strm.completed) : c.buffer_idx = c.tile % 2
      /\ \A j \in DOMAIN strm.completed :
           \A k \in DOMAIN strm.completed :
             (j < k /\ strm.completed[j].tile = strm.completed[k].tile) =>
               OpRank(strm.completed[j].op) < OpRank(strm.completed[k].op)
      /\ (strm.pc = "done" /\ strm.ret = 0) =>
           /\ \A tile \in 0..(strm.num_tiles - 1) :
                \E c \in Range(strm.completed) : c.tile = tile /\ c.op = "read"
           /\ \A c \in Range(strm.completed) :
                c.y_start >= 0 /\ c.y_start + c.current_tile_height <= strm.height
           /\ \A row \in 0..(strm.height - 1) :
                \A op \in {"write", "kernel", "read"} :
                  Cardinality(ExecutedOn(op, row)) = 1

\* A successful call of three tiles or more, whose buffer pairs were used
\* again, the last tile shorter than the others.
C19_Witness ==
    /\ strm.pc = "done"
    /\ strm.ret = 0
    /\ strm.num_tiles >= 3
    /\ strm.height % strm.tile_height # 0
    /\ Len(strm.completed) = 3 * strm.num_tiles

(***************************************************************************)
(* Degenerate calls                                                        *)
(***************************************************************************)
AllUntouched(buffer) == \A i \in DOMAIN buffer : buffer[i] = Untouched

\* C9: kmeans_cluster and hybrid_cluster called with n = 0 or k <= 0 return
\* 0 and never write to the centroids or assignments buffers;
\* dbscan_cluster called with n = 0 returns 0 and never writes a label.
C9_DegenerateCallsWriteNothing ==
    /\ (km.pc # "idle" /\ (km.n = 0 \/ km.requested_k <= 0)) =>
         /\ km.pc \in {"call", "done"}
         /\ km.pc = "done" => km.ret = 0
         /\ AllUntouched(km.centroids)
         /\ AllUntouched(km.assignments)
    /\ (hy.pc # "idle" /\ (hy.n = 0 \/ hy.requested_k <= 0)) =>
         /\ hy.pc \in {"call", "done"}
         /\ hy.pc = "done" => hy.ret = 0
         /\ AllUntouched(hy.centroids)
    /\ (db.pc # "idle" /\ db.n = 0) =>
         /\ db.pc \in {"call", "done"}
         /\ db.pc = "done" => db.ret = 0
         /\ AllUntouched(db.labels)

\* The three functions have returned from degenerate calls, kmeans_cluster
\* from one with points and k <= 0, hybrid_cluster from one with n = 0.
C9_Witness ==
    /\ km.pc = "done" /\ km.n > 0 /\ km.requested_k <= 0
    /\ hy.pc = "done" /\ hy.n = 0 /\ hy.requested_k > 0
    /\ db.pc = "done" /\ db.n = 0

(***************************************************************************)
(* sample_pixels and sample_pixels_from_image.                             *)
(***************************************************************************)
SampleReturned == sp.pc = "done" /\ sp.pass = 1

\* The draw j of Algorithm R for input position i >= sample_size: the value
\* of the draw numbered i - sample_size + 1, reduced to [0, i].
AlgorithmRDraw(i) ==
    xorshift64_int(Draw(xorshift64_init(sp.seed), (i - sp.sample_size) + 1), i + 1)

\* The input position that Algorithm R leaves in slot s: the last position
\* whose draw was s, or s itself.
AlgorithmRHolder(s) ==
    MaxOf({s} \cup {i \in sp.sample_size..(sp.total_pixels - 1) : AlgorithmRDraw(i) = s})

\* C21: sample_pixels returns min(input_size, sample_size) points; when
\* input_size <= sample_size they are the input, copied; otherwise slot s
\* holds the input at the last position i >= sample_size whose draw j in
\* [0, i] was s, or input[s] when there was none.  The slots hold the values
\* of pairwise different input positions, and no slot beyond the count is
\* written.
C21_ReservoirSample ==
    SampleReturned =>
      /\ sp.ret = Min2(sp.total_pixels, sp.sample_size)
      /\ \A s \in 0..(sp.sample_size - 1) : s >= sp.ret => sp.output[s] = Unwritten
      /\ sp.total_pixels <= sp.sample_size =>
           \A s \in 0..(sp.ret - 1) : sp.output[s] = sp.input[s]
      /\ sp.total_pixels > sp.sample_size =>
           \A s \in 0..(sp.ret - 1) : sp.output[s] = sp.input[AlgorithmRHolder(s)]
      /\ \E f \in [0..(sp.ret - 1) -> 0..(sp.total_pixels - 1)] :
           /\ \A s, t \in 0..(sp.ret - 1) : s # t => f[s] # f[t]
           /\ \A s \in 0..(sp.ret - 1) : sp.output[s] = sp.input[f[s]]

\* A sample of two or more slots in which a draw replaced a slot and
\* another slot kept its first value.
C21_Witness ==
    /\ SampleReturned
    /\ sp.total_pixels > sp.sample_size
    /\ \E s, t \in 0..(sp.sample_size - 1) :
         /\ sp.output[s] # sp.input[s]
         /\ AlgorithmRHolder(s) > s
         /\ AlgorithmRHolder(t) = t

FusedReturned == sp.pc = "done" /\ sp.pass = 2

\* C28: sample_pixels_from_image returns the count and, slot by slot, the
\* points that extract_pixels followed by sample_pixels returned for the
\* same image, sample_size and seed, and leaves the generator in the same
\* state: both made the same draws.
C28_FusedEqualsExtractThenSample ==
    FusedReturned =>
      /\ sp.ret = sp.first.ret
      /\ sp.output = sp.first.output
      /\ sp.rng = sp.first.rng

\* A fused call that sampled: a draw replaced a slot, and a pixel with a
\* non-zero top byte is in the sample.
C28_Witness ==
    /\ FusedReturned
    /\ sp.total_pixels > sp.sample_size
    /\ \E s \in 0..(sp.sample_size - 1) :
         sp.output[s] # FusedPoint(sp.image_pixels[s])
    /\ \E s \in 0..(sp.sample_size - 1) :
         \E i \in 0..(sp.total_pixels - 1) :
           /\ sp.image_pixels[i][1] >= 256
           /\ sp.output[s] = FusedPoint(sp.image_pixels[i])

(***************************************************************************)
(* dbscan_cluster: the numbering of the clusters.                          *)
(***************************************************************************)
\* The labels are those of the running or returned call.
DbLabelling == db.pc \in {"scan", "expand", "done"} /\ db.n > 0

\* The core points that carry cluster id c.
CoresLabelled(c) == {i \in 0..(db.n - 1) : IsCore(db, i) /\ db.labels[i] = c}

\* C22: at every moment of a call of dbscan_cluster a cluster id c + 1
\* that some label carries comes with a label that carries c, so id c was
\* written before id c + 1; and when the call has returned, for cluster ids
\* c < c' the lowest-index core point labelled c has a smaller index than
\* the lowest-index core point labelled c'.
C22_ClusterIdsInScanOrder ==
    /\ DbLabelling =>
         \A i \in 0..(db.n - 1) :
           db.labels[i] >= 1 => \E j \in 0..(db.n - 1) : db.labels[j] = db.labels[i] - 1
    /\ DbReturned =>
         \A c \in 0..(db.ret - 1) :
           /\ CoresLabelled(c) # {}
           /\ \A d \in 0..(db.ret - 1) :
                (c < d /\ CoresLabelled(c) # {} /\ CoresLabelled(d) # {})
                  => MinOf(CoresLabelled(c)) < MinOf(CoresLabelled(d))

\* A returned call that found two clusters, the second with a point
\* that is not its seed.
C22_Witness ==
    /\ DbReturned
    /\ db.ret >= 2
    /\ db.min_pts >= 2
    /\ Cardinality({i \in 0..(db.n - 1) : db.labels[i] = 1}) >= 2

(***************************************************************************)
(* The grid range query.                                                   *)
(***************************************************************************)
\* The grid of the running call is built.
GridBuilt == db.pc \in {"scan", "expand"}

\* C24: for every point i the grid range query of dbscan_cluster returns
\* the points within eps of point i, each once: no point within eps is
\* missed, and none farther away is returned.
C24_GridQueryIsExact ==
    GridBuilt =>
      \A i \in 0..(db.n - 1) :
        LET neighbors == grid_range_query(db.grid, db.points, db.n, i, EpsSq(db), db.n)
        IN  /\ Range(neighbors) = BruteNeighbors(db, i)
            /\ Len(neighbors) = Cardinality(BruteNeighbors(db, i))

(***************************************************************************)
(* The lane-wise nearest searches.                                         *)
(***************************************************************************)
\* C25: a lane-wise nearest search returns the index the scalar search
\* returns for the same point and array: find_nearest_sse that of
\* find_nearest_centroid, find_nearest_perceptual_avx2 that of
\* find_nearest_perceptual.
C25_LanesAgreeWithScalar ==
    nn.pc = "done" => nn.lanes = nn.scalar

(***************************************************************************)
(* kmeans_cluster: the centroids and the labels returned.                  *)
(***************************************************************************)
\* The points labelled c by the assignments of the frame.
KmLabelled(c) == {i \in 0..(km.n - 1) : km.assignments[i] = c}

C27_RepresentativesFitBuffer ==
    /\ hy.pc = "blocks" =>
         \A b \in hy.finished :
           Len(hy.block_results[b].representatives) <= BlockLen(b)
    /\ hy.pc = "cluster" =>
         /\ Len(hy.gathered) <= hy.n
         /\ Len(hy.all_representatives) <= hy.n
         /\ hy.k <= hy.n
         /\ Len(hy.all_representatives) >= hy.k
         /\ Len(hy.gathered) < hy.k => Len(hy.all_representatives) = hy.k
         /\ km.pc # "idle" => km.n = Len(hy.all_representatives) /\ km.n >= hy.k

\* A call of k = n whose blocks yield fewer than n representatives: the
\* padding fills the buffer to its last entry.
C27_Witness ==
    /\ hy.pc = "cluster"
    /\ Len(hy.gathered) < hy.k
    /\ hy.k = hy.n
    /\ Len(hy.all_representatives) = hy.n
    /\ km.pc = "done"

(***************************************************************************)
(* Properties of the tile height of opencl_resynthesize_streaming          *)
(***************************************************************************)
\* The call in strm has passed lines 458-466.
TileChosen ==
    \/ strm.pc \notin {"idle", "call", "done"}
    \/ strm.pc = "done" /\ strm.ret = 0

\* C29 as stated: called with tile_height <= 0, the function chooses a
\* tile height that is a multiple of 64 in [64, height], and that is at
\* least 1 and at most height, for every width and height of 1 or more.
C29_TileHeightMultipleOf64 ==
    (TileChosen /\ strm.requested <= 0) =>
      /\ strm.tile_height % 64 = 0
      /\ strm.tile_height >= 64
      /\ strm.tile_height <= strm.height
      /\ strm.tile_height >= 1

\* C29 amended: called with tile_height <= 0, the function chooses a tile
\* height of at least 1 and at most height; it is a multiple of 64 of at
\* least 64 when height >= 64, and it is height when height < 64.
C29_TileHeightWithinImage ==
    (TileChosen /\ strm.requested <= 0) =>
      /\ strm.tile_height >= 1
      /\ strm.tile_height <= strm.height
      /\ strm.height >= 64 => strm.tile_height % 64 = 0 /\ strm.tile_height >= 64
      /\ strm.height < 64 => strm.tile_height = strm.height

\* A successful call on a wide image of more than 64 rows whose tile
\* height was computed, rounded down from 111 rows to 64.
C29_Witness ==
    /\ strm.pc = "done"
    /\ strm.ret = 0
    /\ strm.requested <= 0
    /\ strm.width = WideWidth
    /\ strm.height > 64
    /\ strm.tile_height = 64

(***************************************************************************)
(* Properties of the expansion queues                                      *)
(***************************************************************************)
\* No index occurs twice in the sequence queue.
NoDuplicates(queue) ==
    \A s, t \in 1..Len(queue) : s # t => queue[s] # queue[t]

\* C30: during one cluster expansion of dbscan_cluster and of the DBSCAN
\* of a block of hybrid_cluster no point index is enqueued twice and the
\* seed point is never enqueued, so the queue of n entries holds at most
\* n - 1; in dbscan_cluster the flagged points are the queued ones, and
\* every in_queue flag is zero when the scan looks for the next seed.
C30_QueueHoldsEachPointOnce ==
    /\ db.pc = "expand" =>
         /\ NoDuplicates(db.seed_queue)
         /\ db.i \notin Range(db.seed_queue)
         /\ db.queue_end = Len(db.seed_queue)
         /\ db.queue_end <= db.n - 1
         /\ \A j \in 0..(db.n - 1) :
              db.in_queue[j] = 1 <=> j \in Range(db.seed_queue)
    /\ db.pc = "scan" => \A j \in 0..(db.n - 1) : db.in_queue[j] = 0
    /\ hy.pc = "blocks" =>
         \A b \in hy.finished :
           \A t \in 1..Len(hy.block_results[b].queues) :
             LET e == hy.block_results[b].queues[t]
             IN  /\ NoDuplicates(e.queue)
                 /\ e.seed \notin Range(e.queue)
                 /\ Len(e.queue) <= BlockLen(b) - 1

\* The second expansion of a call of dbscan_cluster has drained a queue
\* that a core point other than the seed has added to.
C30_Witness ==
    /\ db.pc = "expand"
    /\ db.cluster_id >= 1
    /\ db.queue_start = db.queue_end
    /\ db.queue_end >= 2
    /\ \E j \in 0..(db.n - 1) :
         /\ j # db.i
         /\ db.labels[j] = db.cluster_id
         /\ Len(grid_range_query(db.grid, db.points, db.n, j, EpsSq(db), db.n))
              >= db.min_pts
         /\ Range(grid_range_query(db.grid, db.points, db.n, j, EpsSq(db), db.n))
              # Range(grid_range_query(db.grid, db.points, db.n, db.i, EpsSq(db), db.n))

\* A block of hybrid_cluster with an expansion whose queue holds every
\* point of the block but the seed.
C30_BlockQueueFull ==
    /\ hy.pc = "blocks"
    /\ \E b \in hy.finished :
         \E t \in 1..Len(hy.block_results[b].queues) :
           /\ BlockLen(b) >= 3
           /\ Len(hy.block_results[b].queues[t].queue) = BlockLen(b) - 1

(***************************************************************************)
(* Properties of repeated calls                                            *)
(***************************************************************************)
\* C23: a second call of kmeans_cluster, dbscan_cluster, hybrid_cluster or
\* sample_pixels with the same points, parameters and seed, made on the
\* buffers the first call left behind, hands back the same centroids,
\* labels, iteration count and sample as the first.
C23_RerunsAgree ==
    /\ (km.pc = "done" /\ hy.pc = "idle" /\ DOMAIN km.first # {}) =>
         KmOutcome(km) = km.first
    /\ (db.pc = "done" /\ DOMAIN db.first # {}) => DbOutcome(db) = db.first
    /\ (hy.pc = "done" /\ DOMAIN hy.first # {}) => HyOutcome(hy) = hy.first
    /\ (sp.pc = "done" /\ sp.pass = 1 /\ DOMAIN sp.first # {}) =>
         SpOutcome(sp) = sp.first

\* A second call of hybrid_cluster has returned; its blocks finished out
\* of order and K-Means reduced more than k representatives to centroids
\* that differ.
C23_Witness ==
    /\ hy.pc = "done"
    /\ DOMAIN hy.first # {}
    /\ hy.out_of_order
    /\ hy.ret >= 1
    /\ Len(hy.gathered) > hy.k
    /\ \E c \in 1..(hy.k - 1) : hy.centroids[c] # hy.centroids[0]

\* A second call of kmeans_cluster that repaired an empty cluster, of
\* dbscan_cluster that found two clusters, and of sample_pixels whose
\* draws replaced a slot, has returned.
C23_KmeansRerun ==
    km.pc = "done" /\ hy.pc = "idle" /\ DOMAIN km.first # {} /\ km.ret >= 2

C23_DbscanRerun ==
    db.pc = "done" /\ DOMAIN db.first # {} /\ db.ret >= 2

C23_SampleRerun ==
    /\ sp.pc = "done" /\ sp.pass = 1 /\ DOMAIN sp.first # {}
    /\ \E s \in 0..(sp.ret - 1) : sp.output[s] # sp.input[s]

====
